---- MODULE Spec2Model ----
(***************************************************************************)
(* Model of the overweight GitHub Action (src/src/action/index.js and the  *)
(* helpers it calls in baseline.js, branch.js, git.js and github.js):      *)
(* sequential runs of runAction against one repository on the hosting API. *)
(* Names (branches, patterns, inputs) are sequences of one-character       *)
(* strings so that splitting, trimming, globbing and sanitising are        *)
(* computed as the code computes them.                                     *)
(***************************************************************************)
EXTENDS Integers, Sequences, FiniteSets, TLC

(* ------------------------------ bounds --------------------------------- *)
\* number of times CI is run again for the event of a behaviour
MaxReruns == 1

(* --------------------------- program constants ------------------------- *)
\* maxRetries of createOrUpdateFileContents
maxRetries == 5
\* maxRetries of the verification loop of ensureUpdateBranchExists
verifyMaxRetries == 5

(* ------------------------------- names --------------------------------- *)
MAIN == <<"m", "a", "i", "n">>
MASTER == <<"m", "a", "s", "t", "e", "r">>
UNKNOWN == <<"u", "n", "k", "n", "o", "w", "n">>
\* a feature branch (the head of the source pull request)
FEAT == <<"f", "/", "x">>
\* GITHUB_REF_NAME of a pull_request event for pull request 7
MERGE7 == <<"7", "/", "m">>
\* "overweight/baseline", the default of the update-branch-prefix input
DEFAULT_PREFIX ==
  <<"o", "v", "e", "r", "w", "e", "i", "g", "h", "t", "/",
    "b", "a", "s", "e", "l", "i", "n", "e">>
\* "overweight", a branch that may already exist in the repository
OVERWEIGHT == <<"o", "v", "e", "r", "w", "e", "i", "g", "h", "t">>
DEFAULT_PROTECTED_BRANCHES == <<MAIN, MASTER>>
\* number of the source pull request (head FEAT)
SourcePr == 7
\* number the hosting API gives to the first pull request the action opens
FirstNewPr == 15

AlnumChars ==
  {"a", "b", "c", "d", "e", "f", "g", "h", "i", "j", "k", "l", "m", "n", "o",
   "p", "q", "r", "s", "t", "u", "v", "w", "x", "y", "z",
   "0", "1", "2", "3", "4", "5", "6", "7", "8", "9"}
\* the characters kept by /[^0-9A-Za-z._-]+/
SuffixChars == AlnumChars \cup {".", "_", "-"}

DigitStr(d) ==
  CASE d = 0 -> "0" [] d = 1 -> "1" [] d = 2 -> "2" [] d = 3 -> "3"
    [] d = 4 -> "4" [] d = 5 -> "5" [] d = 6 -> "6" [] d = 7 -> "7"
    [] d = 8 -> "8" [] OTHER -> "9"

RECURSIVE NumToSeq(_)
\* template-literal conversion of a number to its decimal digits
NumToSeq(n) ==
  IF n < 10 THEN <<DigitStr(n)>>
  ELSE NumToSeq(n \div 10) \o <<DigitStr(n % 10)>>

(* --------------------------- string helpers ---------------------------- *)
RECURSIVE SplitOn(_, _)
\* String.prototype.split(sep) for a one-character separator
SplitOn(s, sep) ==
  IF \A i \in 1..Len(s) : s[i] # sep THEN <<s>>
  ELSE LET k == CHOOSE i \in 1..Len(s) :
                  s[i] = sep /\ \A j \in 1..(i - 1) : s[j] # sep
       IN <<SubSeq(s, 1, k - 1)>> \o SplitOn(SubSeq(s, k + 1, Len(s)), sep)

RECURSIVE TrimStr(_)
\* String.prototype.trim over the blank character
TrimStr(s) ==
  IF s = <<>> THEN s
  ELSE IF Head(s) = " " THEN TrimStr(Tail(s))
  ELSE IF s[Len(s)] = " " THEN TrimStr(SubSeq(s, 1, Len(s) - 1))
  ELSE s

RECURSIVE JoinWith(_, _)
\* Array.prototype.join(sep)
JoinWith(parts, sep) ==
  IF parts = <<>> THEN <<>>
  ELSE IF Len(parts) = 1 THEN parts[1]
  ELSE parts[1] \o <<sep>> \o JoinWith(Tail(parts), sep)

\* Array.prototype.filter(Boolean) on an array of strings
FilterNonEmpty(parts) == SelectSeq(parts, LAMBDA p : p # <<>>)

MapTrim(parts) == [i \in 1..Len(parts) |-> TrimStr(parts[i])]

(* ------------------------------ branch.js ------------------------------ *)
\* parseProtectedBranchPatterns
parseProtectedBranchPatterns(input) ==
  LET raw == IF TrimStr(input) # <<>> THEN input
             ELSE JoinWith(DEFAULT_PROTECTED_BRANCHES, ",")
  IN FilterNonEmpty(MapTrim(SplitOn(raw, ",")))

RECURSIVE RegexTest(_, _)
\* patternToRegex(pattern).test(branch): every character is escaped and
\* literal, "*" became ".*", and the expression is anchored at both ends
RegexTest(pattern, branch) ==
  IF pattern = <<>> THEN branch = <<>>
  ELSE IF Head(pattern) = "*"
    THEN \E k \in 0..Len(branch) :
           RegexTest(Tail(pattern), SubSeq(branch, k + 1, Len(branch)))
  ELSE /\ branch # <<>>
       /\ Head(branch) = Head(pattern)
       /\ RegexTest(Tail(pattern), Tail(branch))

branchMatchesPattern(branch, pattern) ==
  IF pattern = <<>> \/ branch = <<>> THEN FALSE
  ELSE RegexTest(pattern, branch)

\* the gate throws away every pattern (a protection list that is ignored)
isBranchProtected_off(branch, patterns) == FALSE

isBranchProtected(branch, patterns) ==
  /\ branch # <<>>
  /\ \E i \in 1..Len(patterns) : branchMatchesPattern(branch, patterns[i])

\* getBranchName, with GITHUB_REF_NAME as the only source of the name
getBranchName(refName) == refName

RECURSIVE StripTrailingSlashes(_)
StripTrailingSlashes(s) ==
  IF s # <<>> /\ s[Len(s)] = "/"
    THEN StripTrailingSlashes(SubSeq(s, 1, Len(s) - 1))
  ELSE s

sanitizeBranchPrefix(prefix) ==
  StripTrailingSlashes(IF prefix = <<>> THEN DEFAULT_PREFIX ELSE prefix)

RECURSIVE sanitizeBranchSuffix(_)
\* every maximal run of characters outside [0-9A-Za-z._-] becomes one "-"
sanitizeBranchSuffix(suffix) ==
  IF suffix = <<>> THEN <<>>
  ELSE IF Head(suffix) \in SuffixChars
    THEN <<Head(suffix)>> \o sanitizeBranchSuffix(Tail(suffix))
  ELSE IF Len(suffix) > 1 /\ suffix[2] \notin SuffixChars
    THEN sanitizeBranchSuffix(Tail(suffix))
  ELSE <<"-">> \o sanitizeBranchSuffix(Tail(suffix))

\* buildUpdateBranchName; prNumber 0 stands for null, runId for
\* github.context.runId || Date.now()
buildUpdateBranchName(prefix, prNumber, currentBranch, runId) ==
  LET suffix ==
        IF prNumber # 0 THEN <<"p", "r", "-">> \o NumToSeq(prNumber)
        ELSE IF sanitizeBranchSuffix(currentBranch) # <<>>
          THEN sanitizeBranchSuffix(currentBranch)
        ELSE <<"r", "u", "n", "-">> \o NumToSeq(runId)
  IN sanitizeBranchPrefix(prefix) \o <<"/">> \o suffix

RECURSIVE CollapseHyphens(_)
\* replace(/-+/g, "-")
CollapseHyphens(s) ==
  IF Len(s) < 2 THEN s
  ELSE IF s[1] = "-" /\ s[2] = "-" THEN CollapseHyphens(Tail(s))
  ELSE <<s[1]>> \o CollapseHyphens(Tail(s))

flattenBranchName(branchName) ==
  CollapseHyphens(JoinWith(FilterNonEmpty(SplitOn(branchName, "/")), "-"))

\* the segments ensureCreatableBranchName walks over
BranchSegments(branchName) == FilterNonEmpty(SplitOn(branchName, "/"))

\* the i-th strict prefix probed by ensureCreatableBranchName
ProbePrefix(branchName, i) ==
  JoinWith(SubSeq(BranchSegments(branchName), 1, i), "/")

(* ----------------------------- baseline.js ----------------------------- *)
\* file contents: a missing file, text that is not JSON, the text of a JSON
\* array of snapshot records, the text of the JSON report object
NoFile == [k |-> "enoent"]
Garbage == [k |-> "garbage"]
\* a file that exists and that the runner may not read
Unreadable == [k |-> "eacces"]
\* the fields of a snapshot record, in the order they are written
SnapshotKeys == <<"label", "file", "tester", "size", "sizeBytes", "limit", "limitBytes">>
\* JSON.stringify(snapshot, null, 2): the records in order, each as its
\* key/value pairs in insertion order
ArrayText(rows) ==
  [k |-> "array", indent |-> 2,
   rows |-> [i \in 1..Len(rows) |->
               [j \in 1..Len(SnapshotKeys) |->
                  <<SnapshotKeys[j], rows[i][SnapshotKeys[j]]>>]]]
ReportText(fail) == [k |-> "object", fail |-> fail]
\* the values null and undefined of a content variable
RawNull == [k |-> "null"]
Undefined == [k |-> "undefined"]

\* readBaselineState(...).raw: every error of fs.readFile, the missing file
\* and the permission error alike, is caught and gives raw = null
\* the content read at the start of the run is not handed on
readBaselineState_forgotten(fileContent) == Undefined

readBaselineState(fileContent) ==
  IF fileContent \in {NoFile, Unreadable} THEN RawNull ELSE fileContent

\* position of a file path in the order of String.prototype.localeCompare
FileRank(f) == CASE f = "a" -> 1 [] f = "b" -> 2 [] OTHER -> 3

RECURSIVE InsertByFile(_, _)
\* one step of the stable sort (a, b) => a.file.localeCompare(b.file)
InsertByFile(sorted, row) ==
  IF sorted = <<>> THEN <<row>>
  ELSE IF FileRank(sorted[Len(sorted)].file) <= FileRank(row.file)
    THEN Append(sorted, row)
  ELSE Append(InsertByFile(SubSeq(sorted, 1, Len(sorted) - 1), row),
              sorted[Len(sorted)])

RECURSIVE SortByFile(_)
SortByFile(rows) ==
  IF rows = <<>> THEN <<>>
  ELSE InsertByFile(SortByFile(SubSeq(rows, 1, Len(rows) - 1)), rows[Len(rows)])

\* buildBaselineSnapshot keeps the snapshot fields of every row
buildBaselineSnapshot(rows) ==
  SortByFile([i \in 1..Len(rows) |->
                [label |-> rows[i].label, file |-> rows[i].file,
                 tester |-> rows[i].tester, size |-> rows[i].size,
                 sizeBytes |-> rows[i].sizeBytes, limit |-> rows[i].limit,
                 limitBytes |-> rows[i].limitBytes]])

serializeBaselineSnapshot(rows) == ArrayText(buildBaselineSnapshot(rows))

\* a comparison that is never satisfied: every run is taken to need an update
getBaselineUpdateInfo_always(fileContent, rows, previousContent) ==
  [needsUpdate |-> TRUE, content |-> serializeBaselineSnapshot(rows)]

\* getBaselineUpdateInfo; fileContent is what fs.readFile would give when
\* previousContent is undefined
getBaselineUpdateInfo(fileContent, rows, previousContent) ==
  LET nextContent == serializeBaselineSnapshot(rows)
  IN IF previousContent # Undefined
       THEN [needsUpdate |-> IF previousContent = RawNull THEN TRUE
                             ELSE previousContent # nextContent,
             content |-> nextContent]
     ELSE IF fileContent = NoFile
       THEN [needsUpdate |-> TRUE, content |-> nextContent]
     ELSE [needsUpdate |-> fileContent # nextContent, content |-> nextContent]

(* --------------------------- inputs of a run --------------------------- *)
\* report-file input (the default name stands for "overweight-report.json")
reportFileInput == "report.json"
Paths == {"baseline.json", "report.json"}
\* values of the baseline-report-path input; "" is "not provided"
PathInputs == {"", "baseline.json"}

\* formatBytes: pretty-bytes of max(0, value), kept as the number it prints
formatBytes(value) == [pretty |-> IF value > 0 THEN value ELSE 0]

\* formatDiff: "0 B", or the sign and the formatted magnitude
formatDiff(diff) ==
  IF diff = 0 THEN [sign |-> "", pretty |-> 0]
  ELSE [sign |-> IF diff > 0 THEN "+" ELSE "-",
        pretty |-> IF diff > 0 THEN diff ELSE -diff]

\* a summary row of buildSummaryRows for a measured file
SummaryRow(label, file, tester, sizeBytes, limitBytes) ==
  [label |-> label, file |-> file, tester |-> tester,
   size |-> formatBytes(sizeBytes), sizeBytes |-> sizeBytes,
   limit |-> formatBytes(limitBytes), limitBytes |-> limitBytes,
   diffBytes |-> sizeBytes - limitBytes,
   status |-> IF sizeBytes - limitBytes <= 0 THEN "pass" ELSE "fail"]

\* the row of file f measured at n bytes by gzip, at its limit
Row(f, n) == SummaryRow(f, f, "gzip", n, n)
\* result rows of runChecks, in report order
RowChoices == {<<Row("a", 1)>>, <<Row("b", 1), Row("a", 1)>>}
\* contents of the checked-out baseline file
Checkouts ==
  {NoFile, Garbage, Unreadable, ArrayText(<<Row("a", 1)>>),
   ArrayText(<<Row("a", 1), Row("b", 1)>>)}
\* values of the baseline-protected-branches input: "" and "main, f/*"
PatternInputs ==
  {<<>>, <<"m", "a", "i", "n", ",", " ", "f", "/", "*">>}

\* triggering events: pull_request for the source PR, a run on the feature
\* branch, a run on main, a run without a ref name
Event(pr, baseRef, refName) == [pr |-> pr, baseRef |-> baseRef, refName |-> refName]
Events(prBase) ==
  {Event(SourcePr, prBase, MERGE7), Event(0, <<>>, FEAT),
   Event(0, <<>>, MAIN), Event(0, <<>>, <<>>)}

\* baselinePath of runAction (lines 448-463); "" stands for null
baselinePathOf(pathInput, updateBaseline) ==
  LET shouldDefaultBaselinePath ==
        pathInput = "" /\ updateBaseline /\ reportFileInput # ""
  IN IF pathInput # "" THEN pathInput
     ELSE IF shouldDefaultBaselinePath THEN reportFileInput ELSE ""

(* ------------------------- hosting API responses ----------------------- *)
Resp(status, message) == [status |-> status, message |-> message]
Ok == Resp(200, "OK")
Err404 == Resp(404, "Not Found")
Err404Branch == Resp(404, "Branch not found")
Err409 == Resp(409, "sha does not match")
Err422 == Resp(422, "Reference already exists")
Err403 == Resp(403, "Resource not accessible by integration")
Err500 == Resp(500, "Server Error")
\* error.message?.includes("Branch")
MessageIncludesBranch(message) == message \in {"Branch not found"}

DEV == <<"d", "e", "v">>
\* the base branch of the source pull request
REL == <<"r", "e", "l">>
\* "overweight/baseline", a branch that may already exist in the repository
OVERWEIGHT_BASELINE == DEFAULT_PREFIX
RefsHeads == <<"r", "e", "f", "s", "/", "h", "e", "a", "d", "s", "/">>
\* SHA of the tip of a branch after a commit of the bot
BotCommit == "sha-bot"

(* ------------------------------- state --------------------------------- *)
VARIABLES
  inputs,  \* the inputs of the workflow step (the same in every run)
  run,     \* the current run of runAction: position, event, locals, outputs
  fs,      \* the files of the runner's workspace, by path
  remote,  \* the repository on the hosting API: refs, files, pull requests
  hist,    \* what earlier runs did (history of the sequence of runs)
  chk,     \* a call of runChecks: position, configuration, results so far
  lib,     \* a call of a library function: its name, argument and outcome
  cli,     \* a process of the command line tool: options, disk, exit code
  peer     \* a second run of the workflow on another runner, when suspended

vars == <<inputs, run, fs, remote, hist, chk, lib, cli, peer>>
\* the state of the action and of the repository
actionVars == <<inputs, run, fs, remote, hist, peer>>

\* no call of runChecks is under way
ChkIdle == [pc |-> "idle"]
\* no library function has been called
LibIdle == [pc |-> "idle"]
\* the command line tool has not been started
CliIdle == [pc |-> "idle"]

\* ---- github.js: report comments ----
per_page == 100

\* a comment: its id, the type of its author, whether its body includes
\* REPORT_MARKER, its updated_at
Comment(id, userType, marker, updated_at) ==
  [id |-> id, userType |-> userType, marker |-> marker, updated_at |-> updated_at]
\* null for a comment
NoComment == Comment(0, "", FALSE, 0)
NoCommentCall == [kind |-> "none", id |-> 0, before |-> <<>>, status |-> 0]

\* the filter of line 223
IsReportComment(comment) == comment.userType = "Bot" /\ comment.marker

\* the answer of listComments with per_page: the first page only
ListedComments(comments, otherComments) ==
  IF otherComments >= per_page THEN <<>>
  ELSE SubSeq(comments, 1,
              IF Len(comments) <= per_page - otherComments THEN Len(comments)
              ELSE per_page - otherComments)

\* findExistingReportComment on the listed comments: the first of the
\* report comments sorted by updated_at, latest first (the sort is stable)
findExistingReportComment(listed) ==
  LET reports == SelectSeq(listed, IsReportComment)
  IN IF reports = <<>> THEN NoComment
     ELSE reports[CHOOSE k \in 1..Len(reports) :
                    \A l \in 1..Len(reports) :
                      \/ reports[k].updated_at > reports[l].updated_at
                      \/ reports[k].updated_at = reports[l].updated_at /\ k <= l]

\* no error was caught
NoError == [step |-> "", message |-> ""]

IdleRun ==
  [pc |-> "idle",
   \* the event, the result of runChecks, and whether the run repeats the
   \* one before it (same event, same result, same checkout)
   hasFailures |-> FALSE, event |-> Event(0, <<>>, <<>>), rows |-> <<>>,
   rerun |-> FALSE, committed |-> FALSE, checkout |-> NoFile,
   \* resolveConfig or runChecks threw; the error that reached the catch
   \* block of runAction and the step that raised it
   checksThrew |-> FALSE, error |-> NoError,
   \* the steps of the baseline update this run has taken so far, and
   \* whether the update branch was ensured since the last put-file
   steps |-> {}, branchEnsured |-> FALSE,
   \* locals of runAction and handleBaselineUpdate
   baselinePath |-> "", raw |-> Undefined, needsUpdate |-> FALSE,
   protected |-> FALSE, content |-> Undefined, currentBranch |-> <<>>,
   baseBranch |-> <<>>, prIdentifier |-> 0, updateBranchName |-> <<>>,
   \* the answer of the default-branch query (0: not asked), the index of the
   \* prefix being probed, the number of probes when the name was settled
   baseQuery |-> 0, probe |-> 0, probed |-> 0, baseSha |-> "", existingFileSha |-> Undefined,
   attempt |-> 0, vattempt |-> 0, ret |-> "", existingComment |-> NoComment,
   \* the comment call of this run and the comments it was issued on
   commentCall |-> NoCommentCall,
   \* outputs and the failed state
   failed |-> <<>>, baselineUpdated |-> FALSE, outPrNumber |-> 0,
   \* calls issued by this run: the kinds of writes, whether the hosting API
   \* was called at all, the create-PR calls
   writes |-> {}, called |-> FALSE, nCreatePr |-> 0, createPrArgs |-> <<>>,
   \* the put-file calls of createOrUpdateFileContents: their number and the
   \* answer to the last one
   nPut |-> 0, lastPut |-> Ok,
   \* the calls of ensureUpdateBranchExists since the update logic began
   nEnsure |-> 0,
   \* the number of commits of the baseline file the repository had when
   \* this run read the file SHA, and when it issued its last put-file
   readAt |-> 0, putAt |-> 0,
   \* the blob SHA the file had on the branch when the last put-file arrived
   putOver |-> Undefined,
   \* the current (or last) call of ensureUpdateBranchExists
   ensure |-> "none", firstGetRef |-> 0, baseGetRef |-> 0, ensureCreates |-> 0,
   createRefArgs |-> <<>>, createRefAnswer |-> 0,
   \* the answer of the list of open pull requests of the update branch
   listed |-> "notyet", foundPr |-> 0]

\* the repository: its default branch is dev, main and rel exist next to it,
\* the source pull request (head f/x, base rel) is open
\* the repository before the run, with the branches of extra besides its own
Repository(extra) ==
  [tips |-> [r \in {MAIN, DEV, REL, FEAT} \cup extra |->
               CASE r = MAIN -> "sha-main" [] r = DEV -> "sha-dev"
                 [] r = REL -> "sha-rel"
                 [] r = FEAT -> "sha-feat" [] OTHER -> "sha-other"],
   fresh |-> {},
   files |-> {},
   prs |-> {[number |-> SourcePr, head |-> FEAT, base |-> REL]},
   defaultBranch |-> DEV,
   \* the comments of the source pull request in the order of the list
   \* answer, after otherComments comments that are not modelled one by
   \* one; the account type of the token; the clock of updated_at; the
   \* number of comments the action created
   comments |-> <<>>, otherComments |-> 0, actor |-> "Bot", clock |-> 0,
   createdComments |-> 0,
   \* the number of put-file calls the repository accepted
   commits |-> 0]

\* no second run of the workflow is under way
NoPeer == [run |-> IdleRun, fs |-> [p \in Paths |-> NoFile]]

Init ==
  /\ peer = NoPeer
  /\ inputs \in [updateBaseline : BOOLEAN, token : BOOLEAN,
                 pathInput : PathInputs, patternsInput : PatternInputs]
  /\ run = IdleRun
  /\ fs = [p \in Paths |-> NoFile]
  /\ \E extra \in {{}, {OVERWEIGHT}, {OVERWEIGHT_BASELINE}} : remote = Repository(extra)
  /\ hist = [runs |-> 0, targets |-> {}]
  /\ chk = ChkIdle
  /\ lib = LibIdle
  /\ cli = CliIdle

\* the catch block of runAction: core.setFailed(error.message)
Thrown(r, message) ==
  [r EXCEPT !.pc = "done", !.failed = Append(@, message),
            !.error = [step |-> r.pc, message |-> message]]

\* refs of the repository and the answers of get-ref
RefExists(ref) == ref \in DOMAIN remote.tips
GetRefOutcomes(ref) ==
  IF RefExists(ref)
    THEN IF ref \in remote.fresh THEN {Ok, Err404, Err500} ELSE {Ok, Err500}
  ELSE {Err404, Err500}

\* the file of the repository at <<ref, path>>, NoFile when absent
RemoteFile(ref, path) ==
  IF \E f \in remote.files : f.ref = ref /\ f.path = path
    THEN (CHOOSE f \in remote.files : f.ref = ref /\ f.path = path).content
  ELSE NoFile

(* ------------------------------ runAction ------------------------------ *)
\* the message of an error of resolveConfig or runChecks (lines 434, 444)
ChecksErrorMessage == "configuration or tester error"

\* a run starts on a fresh checkout; the event, the result of the checks and
\* the checked-out baseline file are drawn here
StartRun ==
  /\ run.pc = "idle"
  /\ hist.runs = 0
  /\ \E hasFailures \in BOOLEAN, event \in Events(REL), checkout \in Checkouts,
        threw \in BOOLEAN :
       LET baselinePath == baselinePathOf(inputs.pathInput, inputs.updateBaseline)
       IN /\ threw => ~hasFailures
          /\ run' = IF threw
                      THEN Thrown([IdleRun EXCEPT !.pc = "checks", !.event = event,
                                     !.checksThrew = TRUE, !.checkout = checkout],
                                  ChecksErrorMessage)
                    ELSE [IdleRun EXCEPT !.pc = "read", !.hasFailures = hasFailures,
                            !.event = event, !.baselinePath = baselinePath,
                            !.checkout = checkout]
          /\ fs' = [p \in Paths |-> IF p = baselinePath THEN checkout ELSE NoFile]
  /\ hist' = [hist EXCEPT !.runs = @ + 1]
  /\ UNCHANGED <<inputs, remote>>

\* CI is run again for the same event on the same commit: same checkout,
\* same build output
Rerun ==
  /\ run.pc = "done"
  /\ hist.runs <= MaxReruns
  /\ run' = IF run.checksThrew
              THEN Thrown([IdleRun EXCEPT !.pc = "checks", !.event = run.event,
                             !.checksThrew = TRUE, !.checkout = run.checkout,
                             !.rerun = TRUE],
                          ChecksErrorMessage)
            ELSE [IdleRun EXCEPT !.pc = "read", !.hasFailures = run.hasFailures,
                    !.event = run.event, !.baselinePath = run.baselinePath,
                    !.rows = run.rows, !.rerun = TRUE,
                    !.committed = run.baselineUpdated, !.checkout = run.checkout]
  /\ fs' = LET baselinePath == baselinePathOf(inputs.pathInput, inputs.updateBaseline)
           IN [p \in Paths |-> IF p = baselinePath THEN run.checkout ELSE NoFile]
  /\ remote' = [remote EXCEPT !.fresh = {}]
  /\ hist' = [hist EXCEPT !.runs = @ + 1]
  /\ UNCHANGED inputs

\* lines 461-490: read the baseline once, write the report file
ReadBaseline ==
  /\ run.pc = "read"
  /\ run' = [run EXCEPT !.pc = "gate",
               !.raw = IF run.baselinePath # ""
                         THEN readBaselineState(fs[run.baselinePath])
                       ELSE Undefined]
  /\ fs' = [fs EXCEPT ![reportFileInput] = ReportText(run.hasFailures)]
  /\ UNCHANGED <<inputs, remote, hist>>

\* the update gate skips on every failing run only when the flag is off
UpdateGateDecision_ignoreFailures(hasBaselinePath, hasFailures, updateBaseline, hasToken) ==
  IF ~hasBaselinePath THEN "none"
  ELSE IF ~updateBaseline THEN "disabled"
  ELSE IF ~hasToken THEN "notoken"
  ELSE "update"

\* the update gate enters the update whatever the update flag says
UpdateGateDecision_ignoreFlag(hasBaselinePath, hasFailures, updateBaseline, hasToken) ==
  IF ~hasBaselinePath THEN "none"
  ELSE IF hasFailures THEN "failures"
  ELSE IF ~hasToken THEN "notoken"
  ELSE "update"

\* the update gate treats a missing token like a disabled update
UpdateGateDecision_silentToken(hasBaselinePath, hasFailures, updateBaseline, hasToken) ==
  IF ~hasBaselinePath THEN "none"
  ELSE IF hasFailures THEN "failures"
  ELSE IF ~updateBaseline \/ ~hasToken THEN "disabled"
  ELSE "update"

\* lines 493-508: the branch of the update gate that is taken
UpdateGateDecision(hasBaselinePath, hasFailures, updateBaseline, hasToken) ==
  IF ~hasBaselinePath THEN "none"
  ELSE IF hasFailures THEN "failures"
  ELSE IF ~updateBaseline THEN "disabled"
  ELSE IF ~hasToken THEN "notoken"
  ELSE "update"

NeedTokenMessage == "update-baseline requires github-token to be provided."
ChecksFailedMessage == "One or more size checks failed."
NotAccessibleMessage == "Branch was created but is not accessible after multiple retries"

UpdateGate ==
  /\ run.pc = "gate"
  /\ LET d == UpdateGateDecision(run.baselinePath # "", run.hasFailures,
                                 inputs.updateBaseline, inputs.token)
     IN run' = CASE d = "update" -> [run EXCEPT !.pc = "hbu"]
                 [] d = "notoken" ->
                      [run EXCEPT !.pc = "comments",
                         !.failed = Append(@, NeedTokenMessage)]
                 [] OTHER -> [run EXCEPT !.pc = "comments"]
  /\ UNCHANGED <<inputs, fs, remote, hist>>

(* -------------------------- handleBaselineUpdate ----------------------- *)
\* lines 575-601: idempotence check, then the protected-branch gate
CheckNeedsUpdate ==
  /\ run.pc = "hbu"
  /\ \E rows \in IF run.rerun /\ run.rows # <<>> THEN {run.rows} ELSE RowChoices :
       LET patternsInput == inputs.patternsInput
           info == getBaselineUpdateInfo(fs[run.baselinePath], rows, run.raw)
           currentBranch == IF getBranchName(run.event.refName) # <<>>
                              THEN getBranchName(run.event.refName)
                            ELSE UNKNOWN
           protectedPatterns == parseProtectedBranchPatterns(patternsInput)
           branchIsProtected == isBranchProtected(currentBranch, protectedPatterns)
           r == [run EXCEPT !.rows = rows,
                   !.needsUpdate = info.needsUpdate, !.content = info.content,
                   !.currentBranch = currentBranch,
                   !.protected = branchIsProtected]
       IN run' = IF ~info.needsUpdate THEN [r EXCEPT !.pc = "comments"]
                 ELSE IF branchIsProtected THEN [r EXCEPT !.pc = "comments"]
                 ELSE [r EXCEPT !.pc = "resolveBase"]
  /\ UNCHANGED <<inputs, fs, remote, hist>>

\* the default branch is preferred to the base ref of the pull request
resolveBaseBranch_defaultFirst(baseRef, status, defaultBranch) ==
  IF status = 200 THEN defaultBranch
  ELSE IF baseRef # <<>> THEN baseRef
  ELSE MAIN

\* resolveBaseBranch (branch.js 12-37); status is the answer of repos.get
resolveBaseBranch(baseRef, status, defaultBranch) ==
  IF baseRef # <<>> THEN baseRef
  ELSE IF status = 200 THEN defaultBranch
  ELSE MAIN

\* line 605: resolveBaseBranch; repos.get is asked only without a base ref
ResolveBaseBranch ==
  /\ run.pc = "resolveBase"
  /\ IF run.event.baseRef # <<>>
       THEN run' = [run EXCEPT !.pc = "findPr",
                      !.baseBranch =
                        resolveBaseBranch(run.event.baseRef, 200,
                                          remote.defaultBranch)]
     ELSE \E o \in {Ok, Err500} :
            run' = [run EXCEPT !.pc = "findPr", !.called = TRUE,
                      !.baseQuery = o.status,
                      !.baseBranch =
                        resolveBaseBranch(run.event.baseRef, o.status,
                                          remote.defaultBranch)]
  /\ UNCHANGED <<inputs, fs, remote, hist>>

\* the run belongs to the source pull request: its event carries it, or it
\* runs on the head branch of the open pull request
IsSourceRun(r) ==
  \/ r.event.pr = SourcePr
  \/ /\ r.currentBranch = FEAT
     /\ \E pr \in remote.prs : pr.number = SourcePr /\ pr.head = FEAT

\* entry of ensureUpdateBranchExists, returning to position ret
EnterEnsure(r, ret) ==
  [r EXCEPT !.pc = "ensure_get", !.ret = ret, !.ensure = "active",
     !.nEnsure = @ + 1,
     !.firstGetRef = 0, !.baseGetRef = 0, !.ensureCreates = 0,
     !.vattempt = 0, !.baseSha = "", !.createRefArgs = <<>>,
     !.createRefAnswer = 0]

\* the caller goes on after a call of ensureUpdateBranchExists
AfterEnsure(r) ==
  [r EXCEPT !.ensure = "none", !.firstGetRef = 0, !.baseGetRef = 0,
     !.ensureCreates = 0, !.vattempt = 0, !.baseSha = "", !.createRefArgs = <<>>,
     !.createRefAnswer = 0, !.ret = ""]

\* the update branch name is settled: lines 646-656
NameSettled(r, name) ==
  EnterEnsure([r EXCEPT !.updateBranchName = name, !.probed = r.probe,
                 !.probe = 0], "getSha")

TargetsAfter(r, name) ==
  IF IsSourceRun(r) THEN hist.targets \cup {name} ELSE hist.targets

\* open pull requests whose head is the given branch (pulls.list, state open)
OpenPrsOfHead(head) == {q \in remote.prs : q.head = head}

\* findPrNumberForBranch inside the try of lines 620-633: the numbers it can
\* deliver for the answer o; a failure is swallowed and leaves null (0)
PrNumberLookup(o, branch) ==
  IF o.status # 200 \/ OpenPrsOfHead(branch) = {} THEN {0}
  ELSE {q.number : q \in OpenPrsOfHead(branch)}

\* lines 616-645 up to the first probe of ensureCreatableBranchName
DeterminePr ==
  /\ run.pc = "findPr"
  /\ \E o \in IF run.event.pr # 0 THEN {Ok} ELSE {Ok, Err500} :
     \E prIdentifier \in IF run.event.pr # 0 THEN {run.event.pr}
                         ELSE PrNumberLookup(o, run.currentBranch) :
       LET name == buildUpdateBranchName(<<>>, prIdentifier,
                                         run.currentBranch, hist.runs)
           r == [run EXCEPT !.prIdentifier = prIdentifier,
                   !.called = @ \/ run.event.pr = 0]
       IN IF Len(BranchSegments(name)) > 1
            THEN /\ run' = [r EXCEPT !.pc = "probe", !.probe = 1,
                              !.updateBranchName = name]
                 /\ hist' = hist
          ELSE /\ run' = NameSettled(r, name)
               /\ hist' = [hist EXCEPT !.targets = TargetsAfter(r, name)]
  /\ UNCHANGED <<inputs, fs, remote>>

\* the loop stops after the first prefix that is not found
ProbeDecision_firstOnly(status, i, nSegments) ==
  IF status = 200 THEN "flatten"
  ELSE IF status = 404 THEN "keep"
  ELSE "throw"

\* branch.js 167-190: what the answer to the probe of the i-th prefix leads to
ProbeDecision(status, i, nSegments) ==
  IF status = 200 THEN "flatten"
  ELSE IF status = 404 THEN (IF i < nSegments - 1 THEN "next" ELSE "keep")
  ELSE "throw"

\* one probe of the loop of ensureCreatableBranchName (branch.js 167-188)
ProbePrefixRef ==
  /\ run.pc = "probe"
  /\ \E o \in GetRefOutcomes(ProbePrefix(run.updateBranchName, run.probe)) :
       LET r == [run EXCEPT !.called = TRUE]
           d == ProbeDecision(o.status, run.probe,
                              Len(BranchSegments(run.updateBranchName)))
           fallbackName == flattenBranchName(run.updateBranchName)
       IN CASE d = "flatten" ->
                 /\ run' = NameSettled(r, fallbackName)
                 /\ hist' = [hist EXCEPT !.targets = TargetsAfter(r, fallbackName)]
            [] d = "next" ->
                 /\ run' = [r EXCEPT !.probe = @ + 1]
                 /\ hist' = hist
            [] d = "keep" ->
                 /\ run' = NameSettled(r, run.updateBranchName)
                 /\ hist' = [hist EXCEPT
                               !.targets = TargetsAfter(r, run.updateBranchName)]
            [] OTHER ->
                 /\ run' = Thrown(r, o.message)
                 /\ hist' = hist
  /\ UNCHANGED <<inputs, fs, remote>>

(* ------------------------ ensureUpdateBranchExists --------------------- *)
\* a new branch is created although the existence check failed
AfterFirstGetRef_createOnError(status) ==
  IF status = 200 THEN "exists" ELSE "create"

\* git.js 22-39: what the answer of the first get-ref leads to
AfterFirstGetRef(status) ==
  IF status = 200 THEN "exists"
  ELSE IF status # 404 THEN "throw"
  ELSE "create"

\* a call of ensureUpdateBranchExists returns to position ret, or throws
Returned(r) ==
  [r EXCEPT !.pc = r.ret, !.ensure = "returned",
            !.steps = @ \cup {"ensured"}, !.branchEnsured = TRUE]

Threw_continues(r, message) == [r EXCEPT !.pc = r.ret, !.ensure = "threw"]

Threw(r, message) == [Thrown(r, message) EXCEPT !.ensure = "threw"]

EnsureGetRef ==
  /\ run.pc = "ensure_get"
  /\ \E o \in GetRefOutcomes(run.updateBranchName) :
       LET r == [run EXCEPT !.firstGetRef = o.status, !.called = TRUE]
           next == AfterFirstGetRef(o.status)
       IN run' = CASE next = "exists" -> Returned(r)
                   [] next = "create" -> [r EXCEPT !.pc = "ensure_base"]
                   [] OTHER -> Threw(r, o.message)
  /\ UNCHANGED <<inputs, fs, remote, hist>>

\* git.js 41-48: read the tip of the base branch
EnsureGetBase ==
  /\ run.pc = "ensure_base"
  /\ \E o \in GetRefOutcomes(run.baseBranch) :
       LET r == [run EXCEPT !.baseGetRef = o.status]
       IN run' = IF o.status = 200
                   THEN [r EXCEPT !.pc = "ensure_create",
                           !.baseSha = remote.tips[run.baseBranch]]
                 ELSE Threw(r, o.message)
  /\ UNCHANGED <<inputs, fs, remote, hist>>

\* the branch name carried by a full ref name "refs/heads/<name>"
BranchOfRef(ref) == SubSeq(ref, Len(RefsHeads) + 1, Len(ref))

\* one path is a strict directory prefix of the other
PathConflict(a, b) ==
  \/ Len(a) < Len(b) /\ SubSeq(b, 1, Len(a) + 1) = a \o <<"/">>
  \/ Len(b) < Len(a) /\ SubSeq(a, 1, Len(b) + 1) = b \o <<"/">>

\* answers of create-ref: the ref is created unless it exists already or
\* collides with an existing ref
CreateRefOutcomes(name) ==
  IF RefExists(name) \/ \E other \in DOMAIN remote.tips : PathConflict(name, other)
    THEN {Err422, Err500}
  ELSE {Ok, Err500}

\* a branch that exists already is an error like any other
AfterCreateRef_strict(status) ==
  IF status = 200 THEN "verify" ELSE "throw"

\* git.js 59-67: what the answer of create-ref leads to
AfterCreateRef(status) ==
  IF status = 200 \/ status = 422 THEN "verify" ELSE "throw"

\* git.js 50-68: create the branch from the tip that was read
EnsureCreateRef ==
  /\ run.pc = "ensure_create"
  /\ LET ref == RefsHeads \o run.updateBranchName
         name == BranchOfRef(ref)
     IN \E o \in CreateRefOutcomes(name) :
          LET r == [run EXCEPT !.writes = @ \cup {"create-ref"},
                      !.ensureCreates = @ + 1,
                      !.createRefArgs = <<ref, run.baseSha>>,
                      !.createRefAnswer = o.status]
          IN /\ run' = IF AfterCreateRef(o.status) = "verify"
                         THEN [r EXCEPT !.pc = "ensure_verify", !.vattempt = 0]
                       ELSE Threw(r, o.message)
             /\ remote' =
                  IF o.status = 200
                    THEN [remote EXCEPT
                            !.tips = [x \in DOMAIN remote.tips \cup {name} |->
                                        IF x = name THEN run.baseSha
                                        ELSE remote.tips[x]],
                            !.fresh = @ \cup {name},
                            !.files = @ \cup
                              {[ref |-> name, path |-> f.path, content |-> f.content] :
                                 f \in {g \in remote.files : g.ref = run.baseBranch}}]
                  ELSE remote
  /\ UNCHANGED <<inputs, fs, hist>>

\* git.js 70-104: verify that the branch can be read, at most 5 times
EnsureVerify ==
  /\ run.pc = "ensure_verify"
  /\ \E o \in GetRefOutcomes(run.updateBranchName) :
       run' = IF o.status = 200 THEN Returned(run)
              ELSE IF o.status = 404
                THEN IF run.vattempt < verifyMaxRetries - 1
                       THEN [run EXCEPT !.vattempt = @ + 1]
                     ELSE Threw(run, NotAccessibleMessage)
              ELSE Threw(run, o.message)
  /\ UNCHANGED <<inputs, fs, remote, hist>>

(* ------------------------------ github.js ------------------------------ *)
\* blob SHA of a file content: the content identifies it
BlobSha(content) == IF content = NoFile THEN Undefined ELSE content

\* answers of get-content for the baseline file on the update branch
GetContentOutcomes(ref, path) ==
  IF ~RefExists(ref) \/ RemoteFile(ref, path) = NoFile THEN {Err404, Err500}
  ELSE IF ref \in remote.fresh THEN {Ok, Err404, Err500}
  ELSE {Ok, Err500}

PermissionDeniedMessage == "EACCES: permission denied"

\* fs.writeFile on a path: a file the runner may not read may or may not be
\* writable
WriteOutcomes(fileContent) ==
  IF fileContent = Unreadable THEN {TRUE, FALSE} ELSE {TRUE}

\* getExistingFileSha (github.js 17-45), then writeBaseline (lines 665-667)
GetExistingFileSha ==
  /\ run.pc = "getSha"
  /\ \E o \in GetContentOutcomes(run.updateBranchName, run.baselinePath),
        written \in WriteOutcomes(fs[run.baselinePath]) :
       IF (o.status = 200 \/ o.status = 404) /\ written
         THEN /\ run' = [AfterEnsure(run) EXCEPT !.pc = "put", !.attempt = 0,
                           !.existingFileSha =
                             IF o.status = 200
                               THEN BlobSha(RemoteFile(run.updateBranchName,
                                                       run.baselinePath))
                             ELSE Undefined,
                           !.readAt = remote.commits,
                           !.writes = @ \cup {"write-baseline"}]
              /\ fs' = [fs EXCEPT ![run.baselinePath] = run.content]
       ELSE /\ run' = Thrown(run, IF o.status = 200 \/ o.status = 404
                                    THEN PermissionDeniedMessage ELSE o.message)
            /\ fs' = fs
  /\ UNCHANGED <<inputs, remote, hist>>

\* answers of put-file: the branch must be known and the SHA must be the
\* one of the file on the branch
PutFileOutcomes(ref, path, sha) ==
  IF ~RefExists(ref) THEN {Err404Branch, Err500}
  ELSE (IF sha = BlobSha(RemoteFile(ref, path)) THEN {Ok, Err500}
        ELSE IF sha = Undefined THEN {Err422, Err500}
        ELSE {Err409, Err500})
       \cup (IF ref \in remote.fresh THEN {Err404Branch} ELSE {})

\* a put-file that names a missing branch is retried without a limit
shouldRetryPut_unbounded(o, attempt) ==
  o.status = 404 /\ MessageIncludesBranch(o.message)

\* a put-file is also retried after a conflict of the file SHA
shouldRetryPut_conflict(o, attempt) ==
  o.status \in {404, 409, 422} /\ attempt < maxRetries - 1

\* a put-file is retried after every 404, whatever its message names
shouldRetryPut_any404(o, attempt) ==
  o.status = 404 /\ attempt < maxRetries - 1

\* github.js 92: the condition of a retry
shouldRetryPut(o, attempt) ==
  o.status = 404 /\ MessageIncludesBranch(o.message) /\ attempt < maxRetries - 1

\* one iteration of the loop of createOrUpdateFileContents (github.js 74-110)
PutFile ==
  /\ run.pc = "put"
  /\ \E o \in PutFileOutcomes(run.updateBranchName, run.baselinePath,
                              run.existingFileSha) \cup {Err404} :
       LET r == [AfterEnsure(run) EXCEPT !.nPut = @ + 1, !.lastPut = o,
                   !.putAt = remote.commits,
                   !.putOver = BlobSha(RemoteFile(run.updateBranchName,
                                                  run.baselinePath)),
                   !.writes = @ \cup {"put-file"},
                   !.steps = @ \cup (IF o.status = 200 THEN {"put-file", "put-ok"}
                                     ELSE {"put-file"}),
                   !.branchEnsured = FALSE]
       IN IF o.status = 200
            THEN /\ run' = [r EXCEPT !.pc = "findBaselinePr"]
                 /\ remote' =
                      [remote EXCEPT
                         !.files =
                           {f \in @ : ~(f.ref = run.updateBranchName
                                        /\ f.path = run.baselinePath)}
                           \cup {[ref |-> run.updateBranchName,
                                  path |-> run.baselinePath,
                                  content |-> run.content]},
                         !.tips = [@ EXCEPT ![run.updateBranchName] = BotCommit],
                         !.commits = @ + 1]
          ELSE /\ run' = IF shouldRetryPut(o, run.attempt)
                           THEN EnterEnsure([r EXCEPT !.attempt = @ + 1], "put")
                         ELSE Thrown(r, o.message)
               /\ remote' = remote
  /\ UNCHANGED <<inputs, fs, hist>>

\* the pull request the update branch already has makes a new one unnecessary
needsNewPr_always(existingPr) == TRUE

\* lines 688: no open pull request of the update branch was found
needsNewPr(existingPr) == existingPr = 0

\* lines 703-705: the outputs after the pull request is known
WithPrOutputs(r, number) ==
  [r EXCEPT !.pc = "comments", !.outPrNumber = number, !.baselineUpdated = TRUE]

\* findExistingBaselinePr (github.js 125-145) and lines 685-701
FindBaselinePr ==
  /\ run.pc = "findBaselinePr"
  /\ \E o \in {Ok, Err500} :
       IF o.status # 200
         THEN run' = Thrown([run EXCEPT !.steps = @ \cup {"pr-lookup"}], o.message)
       ELSE \E existingPr \in
                 IF OpenPrsOfHead(run.updateBranchName) = {} THEN {0}
                 ELSE {q.number : q \in OpenPrsOfHead(run.updateBranchName)} :
              LET r == [run EXCEPT !.foundPr = existingPr, !.nPut = 0,
                          !.lastPut = Ok, !.attempt = 0, !.nEnsure = 0,
                          !.steps = @ \cup (IF existingPr = 0 THEN {"pr-lookup"}
                                            ELSE {"pr-lookup", "pr-found"}),
                          !.listed = IF existingPr = 0 THEN "none" ELSE "found"]
              IN run' = IF needsNewPr(existingPr) THEN [r EXCEPT !.pc = "createPr"]
                        ELSE WithPrOutputs(r, existingPr)
  /\ UNCHANGED <<inputs, fs, remote, hist>>

\* the number the hosting API gives to the next pull request
NextPrNumber == FirstNewPr + Cardinality(remote.prs) - 1

\* answers of create-PR: one open pull request per head and base
CreatePrOutcomes(head, base) ==
  IF \E q \in remote.prs : q.head = head /\ q.base = base THEN {Err422, Err500}
  ELSE {Ok, Err500}

\* createPullRequest (github.js 189-204) and lines 703-705
CreatePr ==
  /\ run.pc = "createPr"
  /\ \E o \in CreatePrOutcomes(run.updateBranchName, run.baseBranch) :
       LET r == [run EXCEPT !.nCreatePr = @ + 1,
                   !.writes = @ \cup {"create-pr"},
                   !.steps = @ \cup (IF o.status = 200 THEN {"create-pr", "pr-created"}
                                     ELSE {"create-pr"}),
                   !.createPrArgs = <<run.updateBranchName, run.baseBranch>>]
       IN IF o.status = 200
            THEN /\ run' = WithPrOutputs(r, NextPrNumber)
                 /\ remote' = [remote EXCEPT
                                 !.prs = @ \cup {[number |-> NextPrNumber,
                                                  head |-> run.updateBranchName,
                                                  base |-> run.baseBranch]}]
          ELSE /\ run' = Thrown(r, o.message)
               /\ remote' = remote
  /\ UNCHANGED <<inputs, fs, hist>>

(* --------------------------- report comments --------------------------- *)
\* lines 512-513: findExistingReportComment when there is a client and a PR
FindReportComment ==
  /\ run.pc = "comments"
  /\ IF inputs.token /\ run.event.pr # 0
       THEN \E o \in {Ok, Err500} :
              run' = IF o.status = 200
                       THEN [run EXCEPT !.pc = "comment", !.called = TRUE,
                               !.existingComment =
                                 findExistingReportComment(
                                   ListedComments(remote.comments, remote.otherComments))]
                     ELSE Thrown([run EXCEPT !.called = TRUE], o.message)
     ELSE run' = [run EXCEPT !.pc = "comment", !.existingComment = NoComment]
  /\ UNCHANGED <<inputs, fs, remote, hist>>

\* updateComment: the comment gets the new body (with the marker) and a
\* new updated_at
UpdatedComments(comments, id, now) ==
  [k \in 1..Len(comments) |->
     IF comments[k].id = id
       THEN [comments[k] EXCEPT !.marker = TRUE, !.updated_at = now]
     ELSE comments[k]]

\* createComment: a new comment of the account of the token
CreatedComments(comments, userType, now) ==
  Append(comments, Comment(Len(comments) + 1, userType, TRUE, now))

commentErrorIsSwallowed_never(o) == FALSE

\* github.js 279-284: a 403 of the comment call is a warning
commentErrorIsSwallowed(o) == o.status = 403

\* lines 515-539 and commentOnPullRequest (github.js 239-288)
CommentOnPr ==
  /\ run.pc = "comment"
  /\ \E commentOnFailure \in BOOLEAN, commentOnFirstRun \in BOOLEAN,
        commentOnEachRun \in BOOLEAN, opened \in BOOLEAN, isFork \in BOOLEAN :
       LET prPayload == run.event.pr # 0
           shouldCommentOnSuccess ==
             prPayload /\ (commentOnEachRun \/ (commentOnFirstRun /\ opened))
           shouldCommentOnFailure == run.hasFailures /\ commentOnFailure
           shouldUpdateExisting ==
             run.existingComment # NoComment /\ ~run.hasFailures /\ commentOnFailure
           calls == /\ inputs.token
                    /\ shouldCommentOnFailure \/ shouldCommentOnSuccess
                         \/ shouldUpdateExisting
                    /\ prPayload
                    /\ ~isFork
           previous == run.existingComment
           call == [kind |-> IF previous # NoComment THEN "update" ELSE "create",
                    id |-> previous.id, before |-> remote.comments, status |-> 0]
       IN IF ~calls
            THEN run' = [run EXCEPT !.pc = "finish"] /\ remote' = remote
          ELSE \E o \in {Ok, Err403, Err500} :
                 /\ run' = IF o.status = 200 \/ commentErrorIsSwallowed(o)
                             THEN [run EXCEPT !.pc = "finish", !.called = TRUE,
                                     !.commentCall = [call EXCEPT !.status = o.status]]
                           ELSE Thrown([run EXCEPT !.called = TRUE,
                                          !.commentCall = [call EXCEPT !.status = o.status]],
                                       o.message)
                 /\ remote' =
                      IF o.status # 200 THEN remote
                      ELSE IF previous # NoComment
                        THEN [remote EXCEPT
                                !.comments = UpdatedComments(@, previous.id, remote.clock + 1),
                                !.clock = @ + 1]
                      ELSE [remote EXCEPT
                              !.comments = CreatedComments(@, remote.actor, remote.clock + 1),
                              !.clock = @ + 1,
                              !.createdComments = @ + 1]
  /\ UNCHANGED <<inputs, fs, hist>>

\* lines 541-543
Finish ==
  /\ run.pc = "finish"
  /\ run' = [run EXCEPT !.pc = "done",
               !.failed = IF run.hasFailures THEN Append(@, ChecksFailedMessage)
                          ELSE @]
  /\ UNCHANGED <<inputs, fs, remote, hist>>

\* the steps of runAction; the check engine is taken as one step (StartRun)
Next ==
  \/ StartRun /\ UNCHANGED <<chk, lib, cli, peer>>
  \/ Rerun /\ UNCHANGED <<chk, lib, cli, peer>>
  \/ ReadBaseline /\ UNCHANGED <<chk, lib, cli, peer>>
  \/ UpdateGate /\ UNCHANGED <<chk, lib, cli, peer>>
  \/ CheckNeedsUpdate /\ UNCHANGED <<chk, lib, cli, peer>>
  \/ ResolveBaseBranch /\ UNCHANGED <<chk, lib, cli, peer>>
  \/ DeterminePr /\ UNCHANGED <<chk, lib, cli, peer>>
  \/ ProbePrefixRef /\ UNCHANGED <<chk, lib, cli, peer>>
  \/ EnsureGetRef /\ UNCHANGED <<chk, lib, cli, peer>>
  \/ EnsureGetBase /\ UNCHANGED <<chk, lib, cli, peer>>
  \/ EnsureCreateRef /\ UNCHANGED <<chk, lib, cli, peer>>
  \/ EnsureVerify /\ UNCHANGED <<chk, lib, cli, peer>>
  \/ GetExistingFileSha /\ UNCHANGED <<chk, lib, cli, peer>>
  \/ PutFile /\ UNCHANGED <<chk, lib, cli, peer>>
  \/ FindBaselinePr /\ UNCHANGED <<chk, lib, cli, peer>>
  \/ CreatePr /\ UNCHANGED <<chk, lib, cli, peer>>
  \/ FindReportComment /\ UNCHANGED <<chk, lib, cli, peer>>
  \/ CommentOnPr /\ UNCHANGED <<chk, lib, cli, peer>>
  \/ Finish /\ UNCHANGED <<chk, lib, cli, peer>>

Spec == Init /\ [][Next]_vars

(* ============================ properties =============================== *)
RemoteWrites == {"create-ref", "put-file", "create-pr"}
\* positions of a run after the update logic was left or skipped
AfterUpdate == {"comments", "comment", "finish", "done"}
\* the file at the baseline path still has the content of the checkout
BaselineFileUntouched == readBaselineState(fs[run.baselinePath]) = run.raw
\* the elements of a sequence
Range(seq) == {seq[i] : i \in 1..Len(seq)}

\* C1: a run whose checks failed and that has a baseline path writes no
\* baseline: writeBaseline is not called, no create-ref, put-file or create-PR
\* is issued, baseline-updated is not set, whatever the update flag, the
\* token, the branch and the snapshot are; a baseline file that is not the
\* report file keeps the content of the checkout.
FailingRunNeverUpdatesBaseline ==
  (run.pc # "idle" /\ run.hasFailures /\ run.baselinePath # "") =>
    /\ run.writes = {}
    /\ ~run.baselineUpdated
    /\ (run.pc # "read" /\ run.baselinePath # reportFileInput)
         => BaselineFileUntouched

\* a failing run with the update enabled and a token present has ended
FailingRunEnded ==
  /\ run.pc = "done" /\ run.hasFailures /\ run.baselinePath = "baseline.json"
  /\ inputs.updateBaseline /\ inputs.token
  /\ run.failed = <<ChecksFailedMessage>>

RerunIssuesNoRemoteWrite ==
  (run.rerun /\ run.committed) => run.writes \cap RemoteWrites = {}

\* the branches the claim of C4 calls protected: main and master under the
\* default list; under the list "main, f/*" main and every name that starts
\* with "f/"
ProtectedByPatterns(branch) ==
  IF inputs.patternsInput = <<>> THEN branch \in {MAIN, MASTER}
  ELSE \/ branch = MAIN
       \/ Len(branch) >= 2 /\ SubSeq(branch, 1, 2) = <<"f", "/">>

\* C4: a run on a branch that matches a protected pattern never goes past the
\* protection gate, even when the snapshot differs: no baseline write, no
\* create-ref, put-file or create-PR, baseline-updated not set; and the skip
\* itself does not put the run in the failed state.
ProtectedBranchSkip ==
  (run.pc \notin {"idle", "read", "gate", "hbu"}
   /\ run.currentBranch # <<>> /\ ProtectedByPatterns(run.currentBranch)) =>
    /\ run.pc \in AfterUpdate
    /\ run.writes = {}
    /\ ~run.baselineUpdated
    /\ run.pc = "comments" => run.failed = <<>>

\* a run on f/x under the list "main, f/*" whose snapshot differs has ended
\* without failure and without any call
ProtectedRunEnded ==
  /\ run.pc = "done" /\ run.failed = <<>>
  /\ run.currentBranch = FEAT /\ inputs.patternsInput # <<>>
  /\ run.needsUpdate /\ run.protected
  /\ ~run.called

DisabledUpdateLeavesBaseline ==
  (run.pc # "idle" /\ run.baselinePath # "" /\ ~inputs.updateBaseline) =>
    /\ run.writes = {}
    /\ ~run.baselineUpdated
    /\ run.pc # "read" => (run.raw # Undefined /\ BaselineFileUntouched)

\* a passing run with a token and a checked-out baseline, update flag off,
\* has ended
DisabledUpdateRunEnded ==
  /\ run.pc = "done" /\ run.failed = <<>>
  /\ ~inputs.updateBaseline /\ inputs.token /\ ~run.hasFailures
  /\ run.raw = ArrayText(<<Row("a", 1)>>)
  /\ fs[reportFileInput] = ReportText(FALSE)

\* C7: once the snapshot is committed, an open pull request found for the
\* update branch is reused (no create-PR, the outputs are its number);
\* when none is found exactly one create-PR is issued, with the update branch
\* as head and the resolved base branch as base.
PrReuseVsCreation ==
  /\ run.listed # "notyet" =>
       /\ "put-file" \in run.writes
       /\ RemoteFile(run.updateBranchName, run.baselinePath) = run.content
  /\ run.listed = "found" =>
       /\ run.nCreatePr = 0
       /\ run.outPrNumber = run.foundPr
       /\ \E q \in remote.prs :
            q.number = run.foundPr /\ q.head = run.updateBranchName
  /\ run.listed = "none" =>
       \/ run.pc = "createPr" /\ run.nCreatePr = 0
       \/ /\ run.nCreatePr = 1
          /\ run.createPrArgs = <<run.updateBranchName, run.baseBranch>>
          /\ run.baselineUpdated => run.outPrNumber # run.foundPr

\* a run found the open baseline pull request of its update branch and ended
\* with baseline-updated set
ExistingPrReused ==
  /\ run.pc = "done" /\ run.failed = <<>>
  /\ run.listed = "found" /\ run.baselineUpdated
  /\ run.outPrNumber = FirstNewPr

\* C8: the runs of one source (the source pull request, or its head branch
\* while the pull request is open) settle on one update branch, and the source
\* has at most one open baseline pull request.
OneUpdateBranchPerSource ==
  /\ Cardinality(hist.targets) <= 1
  /\ Cardinality({q \in remote.prs : q.head \in hist.targets}) <= 1

\* a put-file of the loop is about to be repeated
AboutToRetryPut ==
  \/ run.pc = "put" /\ run.nPut > 0
  \/ run.pc \in {"ensure_get", "ensure_base", "ensure_create", "ensure_verify"}
       /\ run.ret = "put"

\* C9: put-file is repeated only after a 404 that names the branch; it is
\* attempted at most 5 times in a run; a failure of another kind ends the run
\* at once with that error, and so does the 404 of the fifth attempt.
CommitRetryPolicy ==
  /\ run.nPut <= 5
  /\ AboutToRetryPut =>
       /\ run.lastPut.status = 404
       /\ MessageIncludesBranch(run.lastPut.message)
       /\ run.nPut = run.attempt
  /\ (run.nPut > 0 /\ run.lastPut.status # 200
        /\ ~(run.lastPut.status = 404 /\ MessageIncludesBranch(run.lastPut.message)))
       => (run.pc = "done" /\ run.failed = <<run.lastPut.message>>)
  /\ (run.nPut = 5 /\ run.lastPut.status # 200)
       => (run.pc = "done" /\ run.failed = <<run.lastPut.message>>)

\* the fifth put-file was answered 404 for the branch and the run is failed
RetriesExhausted ==
  /\ run.pc = "done" /\ run.nPut = 5
  /\ run.lastPut = Err404Branch
  /\ run.failed = <<Err404Branch.message>>

\* a call of ensureUpdateBranchExists has ended
EnsureEnded == run.ensure \in {"returned", "threw"}

\* C10 as stated: every call whose first get-ref answers 404 issues exactly
\* one create-ref.
EnsureCreatesOnAbsent ==
  (EnsureEnded /\ run.firstGetRef = 404) => run.ensureCreates = 1

\* C10: a successful get-ref of the update branch issues no create-ref; after
\* a 404, and a successful read of the tip of the base branch, exactly one
\* create-ref is issued for refs/heads/<update branch> with the SHA that was
\* read; when that read fails, or the first get-ref fails with another
\* status, the error propagates and nothing is created.
EnsureBranchExists ==
  /\ (EnsureEnded /\ run.firstGetRef = 200) =>
       (run.ensure = "returned" /\ run.ensureCreates = 0)
  /\ (EnsureEnded /\ run.firstGetRef = 404 /\ run.baseGetRef = 200) =>
       /\ run.ensureCreates = 1
       /\ run.createRefArgs =
            <<RefsHeads \o run.updateBranchName, remote.tips[run.baseBranch]>>
  /\ (EnsureEnded /\ run.firstGetRef = 404 /\ run.baseGetRef # 200) =>
       /\ run.ensure = "threw" /\ run.ensureCreates = 0
       /\ run.pc = "done" /\ run.failed # <<>>
  /\ (EnsureEnded /\ run.firstGetRef \notin {200, 404}) =>
       /\ run.ensure = "threw" /\ run.ensureCreates = 0
       /\ run.pc = "done" /\ run.failed # <<>>
  /\ run.ensure = "active" => run.ensureCreates = 0 \/ run.pc = "ensure_verify"

\* a call found the branch absent, created it from the tip of the base branch
\* and returned
BranchCreatedFromBase ==
  /\ run.ensure = "returned" /\ run.firstGetRef = 404
  /\ run.ensureCreates = 1
  /\ run.updateBranchName \in DOMAIN remote.tips
  /\ remote.tips[run.updateBranchName] = remote.tips[run.baseBranch]

RECURSIVE CollapseNonAlnum(_)
\* every run of characters that are not letters or digits becomes one "-"
CollapseNonAlnum(name) ==
  IF name = <<>> THEN <<>>
  ELSE IF Head(name) \in AlnumChars
    THEN <<Head(name)>> \o CollapseNonAlnum(Tail(name))
  ELSE IF Len(name) > 1 /\ name[2] \notin AlnumChars
    THEN CollapseNonAlnum(Tail(name))
  ELSE <<"-">> \o CollapseNonAlnum(Tail(name))

\* the derivation C11 states: pr-{number}, else the collapsed branch name,
\* else run-{id}, behind the prefix
DerivedBranchName(prNumber, branch, runId) ==
  DEFAULT_PREFIX \o <<"/">> \o
    (IF prNumber # 0 THEN <<"p", "r", "-">> \o NumToSeq(prNumber)
     ELSE IF branch # <<>> THEN CollapseNonAlnum(branch)
     ELSE <<"r", "u", "n", "-">> \o NumToSeq(runId))

\* C11: the candidate update branch of a run is {prefix}/pr-{number} when a
\* pull request number is known, else {prefix}/{collapsed branch name}, else,
\* without a branch name, {prefix}/run-{id}.
BranchNameAsDerived ==
  (run.pc = "probe" /\ run.probe = 1) =>
    run.updateBranchName =
      DerivedBranchName(run.prIdentifier, getBranchName(run.event.refName),
                        hist.runs)

\* the candidate name of the run, and its strict path prefixes
CandidateName ==
  buildUpdateBranchName(<<>>, run.prIdentifier, run.currentBranch, hist.runs)
StrictPrefixes(name) ==
  {SubSeq(name, 1, k - 1) : k \in {i \in 2..Len(name) : name[i] = "/"}}
\* a name with every slash replaced by a hyphen
SlashesToHyphens(name) ==
  [i \in 1..Len(name) |-> IF name[i] = "/" THEN "-" ELSE name[i]]
\* ensureCreatableBranchName has just returned
NameJustSettled == run.pc = "ensure_get" /\ run.ret = "getSha"

\* C12: ensureCreatableBranchName returns the candidate unchanged exactly
\* when no strict path prefix of it exists as a ref (every probe answered 404,
\* and every strict prefix was probed), returns the flattened name exactly
\* when some strict prefix exists, and a probe error other than 404 ends the
\* run with that error.
CollisionAvoidance ==
  /\ NameJustSettled =>
       /\ run.updateBranchName = CandidateName
            <=> StrictPrefixes(CandidateName) \cap DOMAIN remote.tips = {}
       /\ run.updateBranchName = SlashesToHyphens(CandidateName)
            <=> StrictPrefixes(CandidateName) \cap DOMAIN remote.tips # {}
       /\ run.updateBranchName = CandidateName
            => run.probed = Cardinality(StrictPrefixes(CandidateName))
  /\ (run.pc = "done" /\ run.probe > 0) =>
       /\ run.failed = <<Err500.message>>
       /\ run.writes = {}

\* the second strict prefix of the candidate exists as a branch and the name
\* was flattened after two probes
FlattenedOnSecondPrefix ==
  /\ NameJustSettled
  /\ OVERWEIGHT_BASELINE \in DOMAIN remote.tips
  /\ run.probed = 2
  /\ run.updateBranchName = SlashesToHyphens(CandidateName)

\* C13: the base branch is the base ref of the triggering pull request when
\* there is one; else the default branch the live query answered; else main;
\* a failed query gives main and does not end the run.
BaseBranchResolution ==
  /\ run.baseBranch # <<>> =>
       /\ run.event.baseRef # <<>> =>
            (run.baseBranch = run.event.baseRef /\ run.baseQuery = 0)
       /\ (run.event.baseRef = <<>> /\ run.baseQuery = 200) =>
            run.baseBranch = remote.defaultBranch
       /\ (run.event.baseRef = <<>> /\ run.baseQuery # 200) =>
            (run.baseBranch = <<"m", "a", "i", "n">> /\ run.baseQuery # 0)
  /\ run.pc = "findPr" => (run.baseBranch # <<>> /\ run.failed = <<>>)

\* the default-branch query failed and the run goes on with main
BaseFallsBackToMain ==
  /\ run.pc = "findPr" /\ run.baseQuery = 500
  /\ run.baseBranch = MAIN /\ run.event.baseRef = <<>>

\* ------------------------------------------------------------------------
\* The check engine: runChecks (core/run-checks.js) over a configuration,
\* a tester registry and the files of the working tree.
\* ------------------------------------------------------------------------

\* the largest number of file rules of a configuration
MaxRules == 2

\* tester ids, as character sequences
NONE_ID == <<"n", "o", "n", "e">>
GZIP_ID == <<"g", "z", "i", "p">>
BROTLI_ID == <<"b", "r", "o", "t", "l", "i">>
\* a custom id with an upper-case letter, an id of a tester whose measure
\* returns nothing, one whose measure returns bytes: null, and an id that
\* no tester carries
CUSTOM_ID == <<"C", "u", "s", "t">>
BAD_ID == <<"b", "a", "d">>
NULL_ID == <<"n", "u", "l">>
NOPE_ID == <<"z", "i", "p">>
\* the built-in id none written with an upper-case letter
NONE_MIXED == <<"N", "o", "n", "e">>

DEFAULT_TESTER_ID == GZIP_ID
NORMALIZED_TOKENS == {NONE_ID, GZIP_ID, BROTLI_ID}

\* String.prototype.toLowerCase, letter by letter
LowerChar(c) ==
  CASE c = "A" -> "a"
    [] c = "B" -> "b"
    [] c = "C" -> "c"
    [] c = "D" -> "d"
    [] c = "E" -> "e"
    [] c = "F" -> "f"
    [] c = "G" -> "g"
    [] c = "H" -> "h"
    [] c = "I" -> "i"
    [] c = "J" -> "j"
    [] c = "K" -> "k"
    [] c = "L" -> "l"
    [] c = "M" -> "m"
    [] c = "N" -> "n"
    [] c = "O" -> "o"
    [] c = "P" -> "p"
    [] c = "Q" -> "q"
    [] c = "R" -> "r"
    [] c = "S" -> "s"
    [] c = "T" -> "t"
    [] c = "U" -> "u"
    [] c = "V" -> "v"
    [] c = "W" -> "w"
    [] c = "X" -> "x"
    [] c = "Y" -> "y"
    [] c = "Z" -> "z"
    [] OTHER -> c

toLowerCase(str) == [k \in 1..Len(str) |-> LowerChar(str[k])]

normalizeTesterId(value) ==
  IF value = <<>> THEN DEFAULT_TESTER_ID
  ELSE IF toLowerCase(value) \in NORMALIZED_TOKENS THEN toLowerCase(value)
  ELSE value

\* ---- measurements ----

\* JavaScript values a measure function may hand back as "bytes", and the
\* value of Number(...) on them
\* a number is v + f/10 with a tenth digit f in 0..9 (so -0.5 is v = -1, f = 5)
JsNum(n) == [t |-> "number", v |-> n, f |-> 0]
JsDec(n, tenth) == [t |-> "number", v |-> n, f |-> tenth]
JsInfinity == [t |-> "infinity"]
JsBool == [t |-> "boolean"]
JsStr(chars) == [t |-> "string", s |-> chars]

\* a - b on numbers
JsSub(a, b) ==
  LET tenths == (a.v * 10 + a.f) - (b.v * 10 + b.f)
  IN JsDec((tenths - (tenths % 10)) \div 10, tenths % 10)

\* a < 0
JsNegative(a) == a.v < 0
JsNaN == [t |-> "nan"]
JsUndefined == [t |-> "undefined"]
JsNull == [t |-> "null"]

\* Number(measurement?.bytes)
ToNumber(bytes) ==
  CASE bytes.t = "number" -> bytes
    [] bytes.t = "null" -> JsNum(0)
    [] OTHER -> JsNaN

\* Number.isFinite(Number(measurement?.bytes)): the measurement is accepted
IsFinite(bytes) == ToNumber(bytes).t = "number"

\* the byte length of the two files of the working tree
ChunkBytes == 10

FILE_A == "dist/chunk-a.js"
FILE_B == "dist/chunk-b.js"
Files == {FILE_A, FILE_B}

byteLength(file) == IF file = FILE_A THEN ChunkBytes ELSE ChunkBytes + 1

\* the compressors are library code: the length of their output is a fixed
\* function of the buffer
gzipBytes(file) == byteLength(file) + 20
brotliBytes(file) == byteLength(file) + 4

\* tester.measure(buffer): the "bytes" of the measurement
measure(tester, file) ==
  CASE tester.kind = "none" -> JsNum(byteLength(file))
    [] tester.kind = "gzip" -> JsNum(gzipBytes(file))
    [] tester.kind = "brotli" -> JsNum(brotliBytes(file))
    [] tester.kind = "const" -> JsNum(1)
    [] tester.kind = "null" -> JsNull
    [] OTHER -> JsUndefined

\* ---- the registry ----

Tester(id, kind, origin) == [id |-> id, kind |-> kind, origin |-> origin]

noneTester == Tester(NONE_ID, "none", "builtin")
gzipTester == Tester(GZIP_ID, "gzip", "builtin")
brotliTester == Tester(BROTLI_ID, "brotli", "builtin")

builtinTesters == <<noneTester, gzipTester, brotliTester>>

\* testers a caller may supply through options.testers
customTester == Tester(CUSTOM_ID, "const", "custom")
shadowTester == Tester(NONE_ID, "const", "custom")
badTester == Tester(BAD_ID, "undefined", "custom")
nullTester == Tester(NULL_ID, "null", "custom")

\* Map.set for every tester of a list, in order: a later tester replaces an
\* earlier one of the same id
RECURSIVE SetAll(_, _)
SetAll(registry, testers) ==
  IF testers = <<>> THEN registry
  ELSE SetAll([id \in DOMAIN registry \cup {Head(testers).id} |->
                 IF id = Head(testers).id THEN Head(testers) ELSE registry[id]],
              Tail(testers))

createTesterRegistry(customTesters) ==
  SetAll(SetAll(<<>>, builtinTesters), customTesters)

NoTester == [id |-> <<>>, kind |-> "missing", origin |-> "missing"]

\* getTester: the tester of the normalized id, or NoTester where the code
\* throws Unknown tester
getTester(testerId, registry) ==
  IF normalizeTesterId(testerId) \in DOMAIN registry
  THEN registry[normalizeTesterId(testerId)]
  ELSE NoTester

\* ---- the configuration ----

PATTERN_A == "dist/chunk-a.js"
PATTERN_GLOB == "dist/*.js"
PATTERN_MISSING == "dist/missing.js"

\* resolveFiles: the files a pattern matches, in the order of the glob library
resolveFiles(pattern) ==
  CASE pattern = PATTERN_A -> <<FILE_A>>
    [] pattern = PATTERN_GLOB -> <<FILE_A, FILE_B>>
    [] OTHER -> <<>>

\* directories are sequences of path segments, absolute ones start with "/":
\* process.cwd(), and a package directory below it
CWD == <<"/", "work">>
PACKAGE_DIR == <<"pkg">>
\* the directories that hold the built files dist/chunk-a.js, dist/chunk-b.js
ProjectRoots == {CWD, CWD \o PACKAGE_DIR}

\* resolveFiles(pattern, { root }): the glob runs in the root directory
resolveFilesIn(pattern, root) ==
  IF root \in ProjectRoots THEN resolveFiles(pattern) ELSE <<>>

\* ---- size.js: parseSize ----

\* every binary unit read as its decimal neighbour
UNIT_FACTORS_decimal(unit) ==
  CASE unit = <<"b">> -> 1
    [] unit = <<"b", "y", "t", "e">> -> 1
    [] unit = <<"b", "y", "t", "e", "s">> -> 1
    [] unit = <<"k">> -> 1000
    [] unit = <<"k", "b">> -> 1000
    [] unit = <<"k", "i", "b">> -> 1000
    [] unit = <<"m">> -> 1000000
    [] unit = <<"m", "b">> -> 1000000
    [] unit = <<"m", "i", "b">> -> 1000000
    [] unit = <<"g">> -> 1000000000
    [] unit = <<"g", "b">> -> 1000000000
    [] unit = <<"g", "i", "b">> -> 1000000000
    [] OTHER -> 0

\* the factor of a unit, 0 for a unit that is not in the table
UNIT_FACTORS(unit) ==
  CASE unit = <<"b">> -> 1
    [] unit = <<"b", "y", "t", "e">> -> 1
    [] unit = <<"b", "y", "t", "e", "s">> -> 1
    [] unit = <<"k">> -> 1000
    [] unit = <<"k", "b">> -> 1000
    [] unit = <<"k", "i", "b">> -> 1024
    [] unit = <<"m">> -> 1000000
    [] unit = <<"m", "b">> -> 1000000
    [] unit = <<"m", "i", "b">> -> 1048576
    [] unit = <<"g">> -> 1000000000
    [] unit = <<"g", "b">> -> 1000000000
    [] unit = <<"g", "i", "b">> -> 1073741824
    [] OTHER -> 0

Digits == {"0", "1", "2", "3", "4", "5", "6", "7", "8", "9"}
Letters == {"a", "b", "c", "d", "e", "f", "g", "h", "i", "j", "k", "l", "m",
            "n", "o", "p", "q", "r", "s", "t", "u", "v", "w", "x", "y", "z"}
Whitespace == {" ", "\t"}

DigitVal(c) ==
  CASE c = "0" -> 0 [] c = "1" -> 1 [] c = "2" -> 2 [] c = "3" -> 3 [] c = "4" -> 4
    [] c = "5" -> 5 [] c = "6" -> 6 [] c = "7" -> 7 [] c = "8" -> 8 [] OTHER -> 9

RECURSIVE DigitsVal(_)
\* the number a run of digits denotes
DigitsVal(ds) ==
  IF ds = <<>> THEN 0 ELSE DigitsVal(SubSeq(ds, 1, Len(ds) - 1)) * 10 + DigitVal(ds[Len(ds)])

RECURSIVE Pow10(_)
Pow10(k) == IF k = 0 THEN 1 ELSE 10 * Pow10(k - 1)

RECURSIVE LeadLen(_, _)
\* the length of the longest prefix of str made of characters of S
LeadLen(str, S) ==
  IF str = <<>> \/ Head(str) \notin S THEN 0 ELSE 1 + LeadLen(Tail(str), S)

\* value.trim().toLowerCase().replace(/\s+/g, "")
NormalizeSize(str) ==
  SelectSeq(toLowerCase(TrimStr(str)), LAMBDA c : c \notin Whitespace)

\* normalized.match(/^(-?\d+(?:\.\d+)?)([a-z]+)?$/i): the groups, or no match
MatchSize(normalized) ==
  LET neg == normalized # <<>> /\ Head(normalized) = "-"
      body == IF neg THEN Tail(normalized) ELSE normalized
      ni == LeadLen(body, Digits)
      afterInt == SubSeq(body, ni + 1, Len(body))
      nf == IF afterInt # <<>> /\ Head(afterInt) = "."
            THEN LeadLen(Tail(afterInt), Digits) ELSE 0
      rest == IF nf > 0 THEN SubSeq(afterInt, nf + 2, Len(afterInt)) ELSE afterInt
  IN [matched |-> ni > 0 /\ LeadLen(rest, Letters) = Len(rest),
      neg |-> neg,
      int |-> SubSeq(body, 1, ni),
      frac |-> IF nf > 0 THEN SubSeq(afterInt, 2, nf + 1) ELSE <<>>,
      unit |-> rest]

\* Math.round(Number(rawNumber) * factor), the number being sign * N / 10^k:
\* floor(y + 1/2)
RoundProduct(m, factor) ==
  LET N == DigitsVal(m.int \o m.frac) * factor * (IF m.neg THEN -1 ELSE 1)
      D == Pow10(Len(m.frac))
      y == IF D = 1 THEN N ELSE N + D \div 2
  IN IF D = 1 THEN N ELSE (y - (y % D)) \div D

Failure(kind) == [ok |-> FALSE, error |-> kind]
Success(value) == [ok |-> TRUE, value |-> value]

\* parseSize: the number of bytes, or the error it throws
parseSize(value) ==
  IF value.t = "number" THEN Success(value)
  ELSE IF value.t # "string" THEN Failure("unsupported-type")
  ELSE LET m == MatchSize(NormalizeSize(value.s))
           unit == IF m.unit # <<>> THEN m.unit ELSE <<"b">>
       IN IF ~m.matched THEN Failure("invalid-format")
          ELSE IF UNIT_FACTORS(unit) = 0 THEN Failure("unknown-unit")
          ELSE Success(JsNum(RoundProduct(m, UNIT_FACTORS(unit))))

\* a file rule as written in the configuration file; the budget of the
\* single-file rule is one byte over the smaller file, the others are the
\* size of the smaller file
RawRule(path, compression, label) ==
  [path |-> path,
   maxSize |-> IF path = PATTERN_A THEN JsNum(ChunkBytes + 1) ELSE JsNum(ChunkBytes),
   compression |-> compression, label |-> label]

RawRules ==
  {RawRule(p, c, IF p = PATTERN_GLOB THEN "bundles" ELSE "") :
     p \in {PATTERN_A, PATTERN_GLOB, PATTERN_MISSING},
     c \in {<<>>, NONE_ID, CUSTOM_ID, BAD_ID, NULL_ID, NOPE_ID}}

RECURSIVE SeqsUpTo(_, _)
SeqsUpTo(S, n) ==
  IF n = 0 THEN {<<>>}
  ELSE SeqsUpTo(S, n - 1) \cup
       {Append(q, x) : q \in {r \in SeqsUpTo(S, n - 1) : Len(r) = n - 1}, x \in S}

RawConfigs ==
  [defaultCompression : {<<>>, NONE_MIXED},
   files : SeqsUpTo(RawRules, MaxRules)]

TesterOptions ==
  {<<>>, <<customTester, shadowTester>>, <<badTester, nullTester>>}

\* ---- load-config.js: normalizeConfig ----

\* a configuration given as a bare array of rules
ArrayConfig(files) == [array |-> files]

ensureArrayConfig(input) ==
  IF "array" \in DOMAIN input THEN [files |-> input.array] ELSE input

\* an optional string-valued field: the empty sequence when it is absent
OptionalField(object, field) ==
  IF field \in DOMAIN object THEN object[field] ELSE <<>>

\* FileSchema: a non-empty path, a maxSize that is a string or a number
FileSchema(file) ==
  /\ "path" \in DOMAIN file
  /\ file.path # ""
  /\ "maxSize" \in DOMAIN file
  /\ file.maxSize.t \in {"number", "string"}

\* ConfigSchema: at least one file rule, every rule a FileSchema
ConfigSchema(parsed) ==
  /\ "files" \in DOMAIN parsed
  /\ Len(parsed.files) >= 1
  /\ \A k \in 1..Len(parsed.files) : FileSchema(parsed.files[k])

\* the callback of parsed.files.map: one normalized rule (lines 55-73)
normalizeRule(file, defaultCompression) ==
  [pattern |-> file.path,
   label |-> IF "label" \in DOMAIN file /\ file.label # ""
             THEN file.label ELSE file.path,
   compression |-> toLowerCase(IF OptionalField(file, "compression") # <<>>
                               THEN file.compression ELSE defaultCompression),
   maxBytes |-> parseSize(file.maxSize).value]

\* what the callback throws for a rule, "" when it throws nothing
RuleError(file) ==
  IF ~parseSize(file.maxSize).ok THEN parseSize(file.maxSize).error
  ELSE IF JsNegative(parseSize(file.maxSize).value) THEN "negative-size"
  ELSE ""

\* normalizeConfig: the normalized configuration, or the error of the schema
\* or of the first rule that fails
normalizeConfig(rawConfig) ==
  LET parsed == ensureArrayConfig(rawConfig)
      defaultCompression ==
        toLowerCase(IF OptionalField(parsed, "defaultCompression") # <<>>
                    THEN parsed.defaultCompression ELSE DEFAULT_TESTER_ID)
      bad == {k \in 1..Len(parsed.files) : RuleError(parsed.files[k]) # ""}
  IN IF ~ConfigSchema(parsed) THEN Failure("schema")
     ELSE IF bad # {}
       THEN Failure(RuleError(parsed.files[CHOOSE k \in bad : \A l \in bad : k <= l]))
     ELSE Success([defaultCompression |-> defaultCompression,
                   files |-> [k \in 1..Len(parsed.files) |->
                                normalizeRule(parsed.files[k], defaultCompression)]])

\* path.resolve(base, p) for an absolute base: an absolute p wins, an
\* absent p (the empty sequence) leaves the base
pathResolve(base, p) ==
  IF p = <<>> THEN base
  ELSE IF p[1] = "/" THEN p
  ELSE base \o p

\* lines 48 and 53: the root of normalizeConfig(rawConfig, { cwd })
normalizedRoot(rawConfig, cwd) ==
  LET configRoot == pathResolve(CWD, IF cwd # <<>> THEN cwd ELSE CWD)
      parsed == ensureArrayConfig(rawConfig)
  IN IF OptionalField(parsed, "root") # <<>>
       THEN pathResolve(configRoot, parsed.root)
     ELSE configRoot

\* ---- load-config.js: loadConfig ----

OVERWEIGHT_JSON == "overweight.json"
OVERWEIGHT_CONFIG_JSON == "overweight.config.json"
PACKAGE_JSON == "package.json"
\* the file named by --config
CUSTOM_CONFIG == "configs/size.json"
ConfigLocations ==
  {OVERWEIGHT_JSON, OVERWEIGHT_CONFIG_JSON, PACKAGE_JSON, CUSTOM_CONFIG}

\* a file whose text is the JSON of data
JsonFile(data) == [k |-> "json", data |-> data]

\* fs.access succeeds
fileExists(disk, targetPath) == disk[targetPath] # NoFile

\* the parsed content, or the parse error
readJson(disk, targetPath) ==
  IF disk[targetPath].k = "json" THEN Success(disk[targetPath].data)
  ELSE Failure("parse")

\* lines 76-79: the source and the flag that normalizeConfig sets on its value
markSource(result, source) ==
  IF result.ok
  THEN Success(result.value @@ [source |-> source, normalized |-> TRUE])
  ELSE result

isNormalizedConfig(config) == "normalized" \in DOMAIN config

\* what a configuration file gives to normalizeConfig: its parsed content
\* and its source
locateFile(disk, targetPath) ==
  LET data == readJson(disk, targetPath)
  IN IF ~data.ok THEN data
     ELSE Success([data |-> data.value,
                   source |-> [type |-> "file", location |-> targetPath]])

\* what package.json gives to normalizeConfig: its overweight field
locatePackageField(disk) ==
  LET pkgJson == readJson(disk, PACKAGE_JSON)
  IN IF ~pkgJson.ok THEN pkgJson
     ELSE Success([data |-> ensureArrayConfig(pkgJson.value.overweight),
                   source |-> [type |-> "package", location |-> PACKAGE_JSON]])

\* package.json exists, parses and has an overweight field, or fails to parse
PackageFieldFound(disk) ==
  /\ fileExists(disk, PACKAGE_JSON)
  /\ readJson(disk, PACKAGE_JSON).ok => "overweight" \in DOMAIN readJson(disk, PACKAGE_JSON).value

\* the branch of loadConfig that is taken: the data and the source that are
\* handed to normalizeConfig, or the error thrown before it
locateConfig(disk, options) ==
  IF "inlineConfig" \in DOMAIN options
    THEN Success([data |-> options.inlineConfig, source |-> [type |-> "inline"]])
  ELSE IF "configPath" \in DOMAIN options
    THEN IF ~fileExists(disk, options.configPath)
         THEN Failure("config-file-missing")
         ELSE locateFile(disk, options.configPath)
  ELSE IF fileExists(disk, OVERWEIGHT_CONFIG_JSON)
    THEN locateFile(disk, OVERWEIGHT_CONFIG_JSON)
  ELSE IF PackageFieldFound(disk)
    THEN locatePackageField(disk)
  ELSE Failure("no-configuration-found")

\* loadConfig({configPath, inlineConfig}); an option that is not given is
\* not a field of options; every branch that finds a configuration returns
\* normalizeConfig of it
loadConfig(disk, options) ==
  LET located == locateConfig(disk, options)
  IN IF ~located.ok THEN located
     ELSE markSource(normalizeConfig(located.value.data), located.value.source)

\* configurations on disk: each location holds its own rule, so that the
\* rule tells the location
ConfigOf(path, compression) == [files |-> <<RawRule(path, compression, "")>>]

Disks ==
  {d \in [ConfigLocations -> {NoFile, Garbage} \cup
            {JsonFile(ConfigOf(PATTERN_A, NONE_ID)),
             JsonFile(ConfigOf(PATTERN_A, NOPE_ID)),
             JsonFile(ConfigOf(PATTERN_MISSING, NONE_ID)),
             JsonFile([name |-> "pkg"]),
             JsonFile([name |-> "pkg",
                       overweight |-> ArrayConfig(<<RawRule(PATTERN_GLOB, NONE_ID, "bundles")>>)])}] :
     /\ d[OVERWEIGHT_JSON] \in {NoFile, JsonFile(ConfigOf(PATTERN_A, NONE_ID))}
     /\ d[OVERWEIGHT_CONFIG_JSON] \in {NoFile, JsonFile(ConfigOf(PATTERN_A, NOPE_ID))}
     /\ d[CUSTOM_CONFIG] \in {NoFile, Garbage, JsonFile(ConfigOf(PATTERN_MISSING, NONE_ID))}
     /\ d[PACKAGE_JSON] \in
          {NoFile, JsonFile([name |-> "pkg"]),
           JsonFile([name |-> "pkg",
                     overweight |-> ArrayConfig(<<RawRule(PATTERN_GLOB, NONE_ID, "bundles")>>)])}}

\* ---- results ----

NoValue == [t |-> "null"]
NO_MATCH == "No files matched this pattern"

\* a missing pattern reported with a measured size of zero
buildMissingResult_sized(rule) ==
  [pattern |-> rule.pattern, label |-> rule.label, filePath |-> rule.pattern,
   tester |-> rule.compression, size |-> JsNum(0), maxSize |-> rule.maxBytes,
   diff |-> JsSub(JsNum(0), rule.maxBytes), passed |-> FALSE, error |-> NO_MATCH]

buildMissingResult_passing(rule) ==
  [pattern |-> rule.pattern, label |-> rule.label, filePath |-> rule.pattern,
   tester |-> rule.compression, size |-> NoValue, maxSize |-> rule.maxBytes,
   diff |-> NoValue, passed |-> TRUE, error |-> ""]

buildMissingResult(rule) ==
  [pattern |-> rule.pattern, label |-> rule.label, filePath |-> rule.pattern,
   tester |-> rule.compression, size |-> NoValue, maxSize |-> rule.maxBytes,
   diff |-> NoValue, passed |-> FALSE, error |-> NO_MATCH]

passedOf_strict(diff) == diff.v < 0

\* passed = diff <= 0
passedOf(diff) == diff.v < 0 \/ (diff.v = 0 /\ diff.f = 0)

\* the result pushed for one measured match
buildResult(rule, tester, file, size) ==
  [pattern |-> rule.pattern, label |-> rule.label, filePath |-> file,
   tester |-> tester.id, size |-> JsNum(size), maxSize |-> rule.maxBytes,
   diff |-> JsSub(JsNum(size), rule.maxBytes),
   passed |-> passedOf(JsSub(JsNum(size), rule.maxBytes)),
   error |-> ""]

isFailure_errorsOnly(entry) == entry.error # ""

\* the filter of the summary: !entry.passed || entry.error
isFailure(entry) == ~entry.passed \/ entry.error # ""

buildStats(results) ==
  LET failures == SelectSeq(results, isFailure)
  IN [files |-> Len(results),
      failures |-> failures,
      hasFailures |-> Len(failures) > 0,
      hasErrors |-> \E k \in 1..Len(failures) : failures[k].error # ""]

\* ---- runChecks as a state machine ----

pushResult_front(results, entry) == <<entry>> \o results

\* results.push(entry)
pushResult(results, entry) == Append(results, entry)

\* runChecks has been called with a configuration and options.testers
ChkCalled(rawConfig, testers) ==
  [pc |-> "called",
   rawConfig |-> rawConfig,
   testers |-> testers,
   config |-> [defaultCompression |-> <<>>, files |-> <<>>],
   root |-> <<>>,           \* the directory the patterns are resolved in
   registry |-> <<>>,
   i |-> 0,                 \* the rule of the outer loop
   j |-> 0,                 \* the match of the inner loop
   tester |-> NoTester,
   matches |-> <<>>,
   results |-> <<>>,
   measured |-> <<>>,       \* the files read and measured so far, with rule and tester
   error |-> [kind |-> "none"],
   returned |-> FALSE,
   ret |-> [results |-> <<>>, stats |-> buildStats(<<>>)]]

\* the action has not been started
ActionAtRest ==
  /\ inputs = [updateBaseline |-> FALSE, token |-> FALSE, pathInput |-> "",
               patternsInput |-> CHOOSE x \in PatternInputs : TRUE]
  /\ run = IdleRun
  /\ fs = [p \in Paths |-> NoFile]
  /\ remote = Repository({})
  /\ hist = [runs |-> 0, targets |-> {}]
  /\ peer = NoPeer

ChecksInit ==
  /\ ActionAtRest
  /\ lib = LibIdle
  /\ cli = CliIdle
  /\ \E rawConfig \in RawConfigs, testers \in TesterOptions :
       chk = ChkCalled(rawConfig, testers)

\* markNormalized (lines 24-28): the cwd handed to normalizeConfig
markNormalizedCwd(config) ==
  IF OptionalField(config, "root") # <<>> THEN config.root ELSE CWD

\* lines 31-34: normalize the configuration, build the registry
NormalizeAndRegister ==
  /\ chk.pc = "called"
  /\ LET normalized == IF isNormalizedConfig(chk.rawConfig) THEN Success(chk.rawConfig)
                       ELSE normalizeConfig(chk.rawConfig)
     IN IF ~normalized.ok
        THEN chk' = [chk EXCEPT !.pc = "thrown",
                                !.error = [kind |-> "config", id |-> normalized.error]]
        ELSE chk' = [chk EXCEPT !.pc = "rule",
                                !.config = normalized.value,
                                !.root =
                                  IF isNormalizedConfig(chk.rawConfig)
                                    THEN pathResolve(CWD, OptionalField(chk.rawConfig, "root"))
                                  ELSE normalizedRoot(chk.rawConfig,
                                                      markNormalizedCwd(chk.rawConfig)),
                                !.registry = createTesterRegistry(chk.testers),
                                !.i = 1]

\* lines 36-43: the head of the outer loop for rule i: resolve its tester
\* (which may throw), resolve its files, record a missing pattern
EnterRule ==
  /\ chk.pc = "rule"
  /\ chk.i <= Len(chk.config.files)
  /\ LET fileRule == chk.config.files[chk.i]
         testerId == IF fileRule.compression # <<>> THEN fileRule.compression
                     ELSE chk.config.defaultCompression
         tester == getTester(testerId, chk.registry)
         matches == resolveFilesIn(fileRule.pattern, chk.root)
     IN IF tester = NoTester
        THEN chk' = [chk EXCEPT !.pc = "thrown",
                                !.error = [kind |-> "unknown-tester", id |-> testerId]]
        ELSE IF matches = <<>>
        THEN chk' = [chk EXCEPT !.results = pushResult(@, buildMissingResult(fileRule)),
                                !.i = @ + 1]
        ELSE chk' = [chk EXCEPT !.pc = "match", !.tester = tester,
                                !.matches = matches, !.j = 1]

\* lines 45-76: read and measure match j of rule i, push its result
MeasureMatch ==
  /\ chk.pc = "match"
  /\ LET fileRule == chk.config.files[chk.i]
         file == chk.matches[chk.j]
         bytes == measure(chk.tester, file)
         seen == Append(chk.measured,
                        [file |-> file, rule |-> chk.i, tester |-> chk.tester])
     IN IF ~IsFinite(bytes)
        THEN chk' = [chk EXCEPT !.pc = "thrown", !.measured = seen,
                                !.error = [kind |-> "not-numeric",
                                           id |-> chk.tester.id, file |-> file]]
        ELSE chk' = [chk EXCEPT
               !.measured = seen,
               !.results = pushResult(@, buildResult(fileRule, chk.tester, file,
                                                     ToNumber(bytes).v)),
               !.j = IF chk.j < Len(chk.matches) THEN @ + 1 ELSE 0,
               !.i = IF chk.j < Len(chk.matches) THEN @ ELSE @ + 1,
               !.pc = IF chk.j < Len(chk.matches) THEN "match" ELSE "rule"]

\* lines 79-89: the summary and the returned value
ReturnSummary ==
  /\ chk.pc = "rule"
  /\ chk.i > Len(chk.config.files)
  /\ chk' = [chk EXCEPT !.pc = "returned", !.returned = TRUE,
                        !.ret = [results |-> chk.results,
                                 stats |-> buildStats(chk.results)]]

ChecksNext ==
  \/ NormalizeAndRegister /\ UNCHANGED <<actionVars, lib, cli>>
  \/ EnterRule /\ UNCHANGED <<actionVars, lib, cli>>
  \/ MeasureMatch /\ UNCHANGED <<actionVars, lib, cli>>
  \/ ReturnSummary /\ UNCHANGED <<actionVars, lib, cli>>

ChecksSpec == ChecksInit /\ [][ChecksNext]_vars

\* ------------------------------------------------------------------------
\* Properties of the check engine (specification ChecksSpec)
\* ------------------------------------------------------------------------

\* the configuration as written, and the value runChecks returned
WrittenRules == chk.rawConfig.files
ChecksReturned == chk.pc = "returned"

\* the number of results a rule owes: one per match, one for no match
SlotsOf(file) ==
  IF resolveFiles(file.path) = <<>> THEN 1 ELSE Len(resolveFiles(file.path))

\* the place of the first result of rule i in the result sequence
RECURSIVE FirstSlot(_, _)
FirstSlot(files, i) ==
  IF i = 1 THEN 1 ELSE FirstSlot(files, i - 1) + SlotsOf(files[i - 1])

\* the results that carry a measurement, in order
MeasuredResults == SelectSeq(chk.results, LAMBDA e : e.error = "")

\* C14: every measured result has diff = measured size - maxBytes and passed
\* exactly when the size is within the budget (a size equal to the budget
\* passes); a returned run with a result over its budget has hasFailures.
BoundaryInclusivePass ==
  /\ Len(MeasuredResults) <= Len(chk.measured)
  /\ \A k \in 1..Len(MeasuredResults) :
       LET r == MeasuredResults[k]
           m == chk.measured[k]
       IN /\ r.size = ToNumber(measure(m.tester, m.file))
          /\ r.diff = JsNum(r.size.v - r.maxSize.v)
          /\ r.passed <=> (r.size.v <= r.maxSize.v)
  /\ ChecksReturned =>
       ((\E k \in 1..Len(chk.ret.results) :
           /\ chk.ret.results[k].error = ""
           /\ chk.ret.results[k].size.v > chk.ret.results[k].maxSize.v)
        => chk.ret.stats.hasFailures)

\* C14 witness: a returned run with a file exactly at its budget (passed) and
\* a file one byte over it (failed)
AtBudgetAndOneOver ==
  /\ ChecksReturned
  /\ \E k \in 1..Len(chk.ret.results) :
       /\ chk.ret.results[k].error = ""
       /\ chk.ret.results[k].size.v = chk.ret.results[k].maxSize.v
       /\ chk.ret.results[k].passed
  /\ \E k \in 1..Len(chk.ret.results) :
       /\ chk.ret.results[k].error = ""
       /\ chk.ret.results[k].size.v = chk.ret.results[k].maxSize.v + 1
       /\ ~chk.ret.results[k].passed

\* C15: a rule whose pattern matches no file leaves exactly one result, with
\* the no-match error, passed false and no size; the loop goes on to the next
\* rule, and the returned summary has hasFailures and hasErrors and the
\* results of every later rule.
MissingPattern ==
  /\ (chk.pc = "rule" /\ chk.i > 1
        /\ resolveFiles(WrittenRules[chk.i - 1].path) = <<>>) =>
       /\ chk.error.kind = "none"
       /\ Len(chk.results) = FirstSlot(WrittenRules, chk.i) - 1
       /\ chk.results[Len(chk.results)].error = NO_MATCH
  /\ ChecksReturned =>
       \A i \in 1..Len(WrittenRules) :
         resolveFiles(WrittenRules[i].path) = <<>> =>
           LET s == FirstSlot(WrittenRules, i)
           IN /\ s <= Len(chk.ret.results)
              /\ chk.ret.results[s].pattern = WrittenRules[i].path
              /\ chk.ret.results[s].error = NO_MATCH
              /\ ~chk.ret.results[s].passed
              /\ chk.ret.results[s].size = NoValue
              /\ chk.ret.stats.hasFailures
              /\ chk.ret.stats.hasErrors
              /\ Len(chk.ret.results) = FirstSlot(WrittenRules, Len(WrittenRules) + 1) - 1
              /\ \A l \in (i + 1)..Len(WrittenRules) :
                   chk.ret.results[FirstSlot(WrittenRules, l)].pattern = WrittenRules[l].path

\* C15 witness: a returned run whose first rule matched nothing and whose
\* second rule was measured
MissingThenMeasured ==
  /\ ChecksReturned
  /\ Len(WrittenRules) = 2
  /\ resolveFiles(WrittenRules[1].path) = <<>>
  /\ resolveFiles(WrittenRules[2].path) # <<>>
  /\ Len(chk.ret.results) >= 2
  /\ chk.ret.results[2].error = ""

\* C16: in the returned sequence rule i holds the places from its first slot
\* on, one per matched file in match order, each with the rule's pattern,
\* label and budget and the file's own path.
GlobExpansionAndOrder ==
  ChecksReturned =>
    /\ Len(chk.ret.results) = FirstSlot(WrittenRules, Len(WrittenRules) + 1) - 1
    /\ \A i \in 1..Len(WrittenRules) :
         \A j \in 1..Len(resolveFiles(WrittenRules[i].path)) :
           LET r == chk.ret.results[FirstSlot(WrittenRules, i) + j - 1]
           IN /\ r.filePath = resolveFiles(WrittenRules[i].path)[j]
              /\ r.pattern = WrittenRules[i].path
              /\ r.label = (IF WrittenRules[i].label = "" THEN WrittenRules[i].path
                            ELSE WrittenRules[i].label)
              /\ r.maxSize = WrittenRules[i].maxSize
              /\ r.error = ""

\* C16 witness: a returned run of a two-file glob rule followed by a
\* single-file rule: three results
GlobThenSingle ==
  /\ ChecksReturned
  /\ Len(WrittenRules) = 2
  /\ Len(resolveFiles(WrittenRules[1].path)) = 2
  /\ Len(resolveFiles(WrittenRules[2].path)) = 1
  /\ Len(chk.ret.results) = 3

\* C17: the returned summary is derived from the results: hasFailures iff some
\* result failed or has an error, hasErrors iff some result has an error,
\* failures is the subsequence of those results, files is their number.
SummaryDerivation ==
  ChecksReturned =>
    LET R == chk.ret.results
        S == chk.ret.stats
    IN /\ S.hasFailures <=> \E k \in 1..Len(R) : ~R[k].passed \/ R[k].error # ""
       /\ S.hasErrors <=> \E k \in 1..Len(R) : R[k].error # ""
       /\ S.failures = SelectSeq(R, LAMBDA e : ~e.passed \/ e.error # "")
       /\ S.files = Len(R)
       /\ R = chk.results

\* C17 witness: a returned summary over a passing result, a result over its
\* budget and a no-match error
MixedSummary ==
  /\ ChecksReturned
  /\ \E k \in 1..Len(chk.ret.results) : chk.ret.results[k].passed
  /\ \E k \in 1..Len(chk.ret.results) :
       ~chk.ret.results[k].passed /\ chk.ret.results[k].error = ""
  /\ \E k \in 1..Len(chk.ret.results) : chk.ret.results[k].error # ""
  /\ Len(chk.ret.stats.failures) = 2

\* C18: when the run fails with an unknown-tester error, no file of any rule
\* has been read or measured.
UnknownTesterBeforeAnyCheck ==
  (chk.pc = "thrown" /\ chk.error.kind = "unknown-tester") => chk.measured = <<>>

\* C19: a measurement whose bytes is not a finite number ends the run with an
\* error naming the tester and the file, and nothing is returned.
TesterContractViolation ==
  \A k \in 1..Len(chk.measured) :
    measure(chk.measured[k].tester, chk.measured[k].file).t # "number" =>
      /\ chk.pc = "thrown"
      /\ chk.error.kind = "not-numeric"
      /\ chk.error.id = chk.measured[k].tester.id
      /\ chk.error.file = chk.measured[k].file
      /\ ~chk.returned

\* the testers supplied through options.testers
Supplied == {chk.testers[k] : k \in 1..Len(chk.testers)}

\* C20: a rule whose compression is the id of a supplied tester is measured
\* by that tester and by no other, and its tester is never reported unknown.
CustomTesterSelectedById ==
  /\ \A k \in 1..Len(chk.measured) :
       LET m == chk.measured[k]
       IN (\E t \in Supplied : t.id = WrittenRules[m.rule].compression) =>
            /\ m.tester \in Supplied
            /\ m.tester.id = WrittenRules[m.rule].compression
  /\ (chk.pc = "thrown" /\ chk.error.kind = "unknown-tester") =>
       ~\E t \in Supplied : t.id = WrittenRules[chk.i].compression

\* ------------------------------------------------------------------------
\* Library functions called on their own (specification LibSpec)
\* ------------------------------------------------------------------------

\* a call of fn with arg that has not run yet
LibCall(fn, arg) == [pc |-> "called", fn |-> fn, arg |-> arg, out |-> Failure("none")]

\* size strings and the number of bytes each denotes:
\* "10kb", "2MiB", "250", "1.5 MB", " 10 KB ", "1 0 k b", "-5", "1gib", "2gb", "1g", "3m", "3mb", "7k", "4kib", "9b", "9byte", "9bytes", "0.4", "0.6", "1.5kib", "1.25kb", "2.5mib"
SizeTable ==
  {<<JsStr(<<"1", "0", "k", "b">>), 10000>>,
   <<JsStr(<<"2", "M", "i", "B">>), 2097152>>,
   <<JsStr(<<"2", "5", "0">>), 250>>,
   <<JsStr(<<"1", ".", "5", " ", "M", "B">>), 1500000>>,
   <<JsStr(<<" ", "1", "0", " ", "K", "B", " ">>), 10000>>,
   <<JsStr(<<"1", " ", "0", " ", "k", " ", "b">>), 10000>>,
   <<JsStr(<<"-", "5">>), -5>>,
   <<JsStr(<<"1", "g", "i", "b">>), 1073741824>>,
   <<JsStr(<<"2", "g", "b">>), 2000000000>>,
   <<JsStr(<<"1", "g">>), 1000000000>>,
   <<JsStr(<<"3", "m">>), 3000000>>,
   <<JsStr(<<"3", "m", "b">>), 3000000>>,
   <<JsStr(<<"7", "k">>), 7000>>,
   <<JsStr(<<"4", "k", "i", "b">>), 4096>>,
   <<JsStr(<<"9", "b">>), 9>>,
   <<JsStr(<<"9", "b", "y", "t", "e">>), 9>>,
   <<JsStr(<<"9", "b", "y", "t", "e", "s">>), 9>>,
   <<JsStr(<<"0", ".", "4">>), 0>>,
   <<JsStr(<<"0", ".", "6">>), 1>>,
   <<JsStr(<<"1", ".", "5", "k", "i", "b">>), 1536>>,
   <<JsStr(<<"1", ".", "2", "5", "k", "b">>), 1250>>,
   <<JsStr(<<"2", ".", "5", "m", "i", "b">>), 2621440>>}

\* strings that are not sizes:
\* "abc", "10xb", "", "5.", ".5kb", "1.2.3", "1e3", "10 kb!", "kb"
SizeFailures ==
  {JsStr(<<"a", "b", "c">>),
   JsStr(<<"1", "0", "x", "b">>),
   JsStr(<<>>),
   JsStr(<<"5", ".">>),
   JsStr(<<".", "5", "k", "b">>),
   JsStr(<<"1", ".", "2", ".", "3">>),
   JsStr(<<"1", "e", "3">>),
   JsStr(<<"1", "0", " ", "k", "b", "!">>),
   JsStr(<<"k", "b">>)}

\* values that are not strings: finite numbers, and the rest
SizeNumbers == {JsNum(250), JsNum(0), JsNum(-1), JsDec(2, 5)}
SizeOthers == {JsNaN, JsInfinity, JsNull, JsUndefined, JsBool}

SizeInputs ==
  {e[1] : e \in SizeTable} \cup SizeFailures \cup SizeNumbers \cup SizeOthers

\* parseSize(value)
CallParseSize ==
  /\ lib.pc = "called"
  /\ lib.fn = "parseSize"
  /\ lib' = [lib EXCEPT !.pc = "done",
                        !.out = parseSize(lib.arg)]
  /\ UNCHANGED <<actionVars, chk, cli>>

\* ---- normalizeConfig on written configurations ----

\* values written as maxSize: 250, "10kb", "abc", -1, 2.5, null, "-5"
WrittenSizes ==
  {JsNum(250), JsStr(<<"1", "0", "k", "b">>), JsStr(<<"a", "b", "c">>), JsNum(-1),
   JsDec(2, 5), JsNull, JsStr(<<"-", "5">>)}

\* written rules: with an empty path, a single file, a glob with a label and
\* a tester; a rule without path and a rule without maxSize
WrittenEntries ==
  {[path |-> p, maxSize |-> m,
    compression |-> IF p = PATTERN_GLOB THEN BROTLI_ID ELSE <<>>,
    label |-> IF p = PATTERN_GLOB THEN "bundles" ELSE ""] :
     p \in {"", PATTERN_A, PATTERN_GLOB}, m \in WrittenSizes}
  \cup {[maxSize |-> JsNum(250)], [path |-> PATTERN_A]}

WrittenFileLists ==
  {<<>>} \cup {<<e>> : e \in WrittenEntries}
    \cup {<<e1, e2>> : e1 \in WrittenEntries, e2 \in WrittenEntries}

\* a configuration object without and with defaultCompression, a bare array
WrittenConfigs ==
  {[files |-> fl] : fl \in WrittenFileLists}
    \cup {[files |-> fl, defaultCompression |-> NONE_MIXED] : fl \in WrittenFileLists}
    \cup {ArrayConfig(fl) : fl \in WrittenFileLists}

\* normalizeConfig(rawConfig)
CallNormalizeConfig ==
  /\ lib.pc = "called"
  /\ lib.fn = "normalizeConfig"
  /\ lib' = [lib EXCEPT !.pc = "done", !.out = normalizeConfig(lib.arg)]
  /\ UNCHANGED <<actionVars, chk, cli>>

\* ---- baseline.js: serializeBaselineSnapshot and mergeWithBaseline ----

\* summary rows: file a measured by gzip and by brotli, file b by gzip
LibRows ==
  {SummaryRow("a", "a", "gzip", 3, 5), SummaryRow("a", "a", "brotli", 2, 5),
   SummaryRow("bundle", "b", "gzip", 7, 5)}

\* the sequences without repetition over a set
RECURSIVE Arrangements(_)
Arrangements(S) ==
  {<<>>} \cup UNION {{<<x>> \o q : q \in Arrangements(S \ {x})} : x \in S}

IsPermutation(p, q) ==
  /\ Len(p) = Len(q)
  /\ {p[k] : k \in 1..Len(p)} = {q[k] : k \in 1..Len(q)}

\* a row sequence and a permutation of it
RowsAndPermutation ==
  {x \in [rows : Arrangements(LibRows), permuted : Arrangements(LibRows)] :
     IsPermutation(x.rows, x.permuted)}

\* serializeBaselineSnapshot on the rows, on the permutation, on the rows again
CallSerialize ==
  /\ lib.pc = "called"
  /\ lib.fn = "serializeBaselineSnapshot"
  /\ lib' = [lib EXCEPT !.pc = "done",
                        !.out = [first |-> serializeBaselineSnapshot(lib.arg.rows),
                                 second |-> serializeBaselineSnapshot(lib.arg.permuted),
                                 again |-> serializeBaselineSnapshot(lib.arg.rows)]]
  /\ UNCHANGED <<actionVars, chk, cli>>

\* the parsed baseline: the records of an earlier snapshot
BaselineEntry(file, tester, sizeBytes) ==
  [label |-> file, file |-> file, tester |-> tester, size |-> formatBytes(sizeBytes),
   sizeBytes |-> sizeBytes, limit |-> formatBytes(5), limitBytes |-> 5]

LibBaselineEntries ==
  {BaselineEntry("a", "gzip", 3), BaselineEntry("a", "brotli", 1),
   BaselineEntry("b", "gzip", 9)}

\* current rows, a baseline and the same baseline entries in another order
MergeInputs ==
  {x \in [rows : Arrangements(LibRows) \ {<<>>},
          baseline : Arrangements(LibBaselineEntries),
          reordered : Arrangements(LibBaselineEntries)] :
     IsPermutation(x.baseline, x.reordered)}

\* new Map(baseline.map((row) => [row.file, row])).get(file): the last entry
\* of the file, 0 when there is none
LastIndexOf(baseline, file) ==
  LET hits == {k \in 1..Len(baseline) : baseline[k].file = file}
  IN IF hits = {} THEN 0 ELSE CHOOSE k \in hits : \A l \in hits : l <= k

NA == [na |-> TRUE]

\* the callback of rows.map in mergeWithBaseline (lines 107-122)
mergeRow(row, baseline) ==
  LET at == LastIndexOf(baseline, row.file)
      delta == row.sizeBytes - baseline[at].sizeBytes
  IN IF at = 0
     THEN row @@ [baselineSize |-> NA, baselineDiff |-> NA, trend |-> "N/A"]
     ELSE row @@ [baselineSize |-> baseline[at].size,
                  baselineDiff |-> formatDiff(delta),
                  trend |-> IF delta = 0 THEN "flat" ELSE IF delta > 0 THEN "up" ELSE "down"]

\* mergeWithBaseline(rows, baseline) for a baseline that is an array
mergeWithBaseline(rows, baseline) ==
  [k \in 1..Len(rows) |-> mergeRow(rows[k], baseline)]

\* mergeWithBaseline on the baseline and on the reordered baseline
CallMerge ==
  /\ lib.pc = "called"
  /\ lib.fn = "mergeWithBaseline"
  /\ lib' = [lib EXCEPT !.pc = "done",
                        !.out = [merged |-> mergeWithBaseline(lib.arg.rows, lib.arg.baseline),
                                 other |-> mergeWithBaseline(lib.arg.rows, lib.arg.reordered)]]
  /\ UNCHANGED <<actionVars, chk, cli>>

\* ---- load-config.js: loadConfig ----

\* the options of loadConfig: none, an inline configuration, a path, both
LoadOptions ==
  {[none |-> TRUE],
   [inlineConfig |-> ConfigOf(PATTERN_GLOB, <<>>)],
   [configPath |-> CUSTOM_CONFIG],
   [inlineConfig |-> ConfigOf(PATTERN_GLOB, <<>>), configPath |-> CUSTOM_CONFIG]}

LoadInputs == [disk : Disks, options : LoadOptions]

\* loadConfig(options) on a disk
CallLoadConfig ==
  /\ lib.pc = "called"
  /\ lib.fn = "loadConfig"
  /\ lib' = [lib EXCEPT !.pc = "done",
                        !.out = loadConfig(lib.arg.disk, lib.arg.options)]
  /\ UNCHANGED <<actionVars, chk, cli>>

LibCalls ==
  {LibCall("parseSize", v) : v \in SizeInputs}
    \cup {LibCall("normalizeConfig", c) : c \in WrittenConfigs}
    \cup {LibCall("serializeBaselineSnapshot", p) : p \in RowsAndPermutation}
    \cup {LibCall("mergeWithBaseline", a) : a \in MergeInputs}
    \cup {LibCall("loadConfig", a) : a \in LoadInputs}

LibInit ==
  /\ ActionAtRest
  /\ chk = ChkIdle
  /\ cli = CliIdle
  /\ lib \in LibCalls

LibNext ==
  \/ CallParseSize
  \/ CallNormalizeConfig
  \/ CallSerialize
  \/ CallMerge
  \/ CallLoadConfig

LibSpec == LibInit /\ [][LibNext]_vars

LibDone(fn) == lib.pc = "done" /\ lib.fn = fn

FilesOf(written) == IF "array" \in DOMAIN written THEN written.array ELSE written.files
DefaultOf(written) ==
  IF "defaultCompression" \in DOMAIN written THEN written.defaultCompression ELSE GZIP_ID

\* the bytes a written maxSize stands for, by the table of sizes
BytesOf(size) ==
  IF size.t = "number" THEN size
  ELSE JsNum((CHOOSE e \in SizeTable : e[1] = size)[2])

\* a written rule is valid: a non-empty path, a maxSize that is a number or a
\* size string, not negative
ValidEntry(e) ==
  /\ "path" \in DOMAIN e
  /\ e.path # ""
  /\ "maxSize" \in DOMAIN e
  /\ e.maxSize.t = "number" \/ e.maxSize \in {x[1] : x \in SizeTable}
  /\ BytesOf(e.maxSize).v >= 0

\* C21: normalizeConfig fails on an empty list, a missing or empty path, a
\* maxSize that is no string or number, an invalid or negative size; else it
\* returns the rules in input order with label defaulting to the path, tester
\* to the rule's compression, the default, gzip, and maxBytes a non-negative
\* integer.
NormalizeConfigContract ==
  LibDone("normalizeConfig") =>
    LET files == FilesOf(lib.arg)
        valid == Len(files) >= 1 /\ \A k \in 1..Len(files) : ValidEntry(files[k])
    IN /\ ~valid => ~lib.out.ok
       /\ valid =>
            /\ lib.out.ok
            /\ Len(lib.out.value.files) = Len(files)
            /\ \A k \in 1..Len(files) :
                 LET rule == lib.out.value.files[k]
                 IN /\ rule.pattern = files[k].path
                    /\ rule.label = (IF files[k].label = "" THEN files[k].path
                                     ELSE files[k].label)
                    /\ rule.compression =
                         toLowerCase(IF files[k].compression # <<>>
                                     THEN files[k].compression ELSE DefaultOf(lib.arg))
                    /\ rule.maxBytes.v = BytesOf(files[k].maxSize).v
                    /\ rule.maxBytes.v >= 0
                    /\ rule.maxBytes.f = 0

\* C23: the serialization is a JSON array with 2-space indent, sorted by file
\* ascending, each entry with exactly the seven fields in their order; rows
\* that are permutations of each other, and the same rows twice, give the
\* same text.
CanonicalSerialization ==
  LibDone("serializeBaselineSnapshot") =>
    /\ lib.out.first.k = "array"
    /\ lib.out.first.indent = 2
    /\ Len(lib.out.first.rows) = Len(lib.arg.rows)
    /\ \A i \in 1..Len(lib.out.first.rows) :
         /\ [j \in 1..Len(lib.out.first.rows[i]) |-> lib.out.first.rows[i][j][1]]
              = <<"label", "file", "tester", "size", "sizeBytes", "limit", "limitBytes">>
         /\ i > 1 => lib.out.first.rows[i - 1][2][2] # "b" \/ lib.out.first.rows[i][2][2] # "a"
    /\ lib.out.first = lib.out.again
    /\ lib.out.first = lib.out.second

\* C24: one merged row per current row, in order; "N/A" without a baseline
\* entry of the file; else delta = current - previous bytes with trend flat,
\* up or down by its sign; the same result for every order of the baseline.
MergeKeyedByFile ==
  LibDone("mergeWithBaseline") =>
    /\ Len(lib.out.merged) = Len(lib.arg.rows)
    /\ \A k \in 1..Len(lib.arg.rows) :
         LET row == lib.arg.rows[k]
             m == lib.out.merged[k]
             entries == {e \in {lib.arg.baseline[l] : l \in 1..Len(lib.arg.baseline)} :
                           e.file = row.file}
         IN /\ m.file = row.file /\ m.tester = row.tester /\ m.sizeBytes = row.sizeBytes
            /\ entries = {} => (m.trend = "N/A" /\ m.baselineSize = NA /\ m.baselineDiff = NA)
            /\ entries # {} =>
                 \E e \in entries :
                   /\ m.trend = "flat" <=> row.sizeBytes - e.sizeBytes = 0
                   /\ m.trend = "up" <=> row.sizeBytes - e.sizeBytes > 0
                   /\ m.trend = "down" <=> row.sizeBytes - e.sizeBytes < 0
    /\ lib.out.merged = lib.out.other

\* the location a loaded configuration came from, "" when the load failed
LoadedFrom(out) ==
  IF ~out.ok THEN ""
  ELSE IF out.value.source.type = "inline" THEN "inline"
  ELSE out.value.source.location

\* C22: an inline configuration wins over every file; without it a given
\* config path is the only location tried and its absence is an error;
\* without either the first existing of overweight.json,
\* overweight.config.json and the overweight field of package.json is
\* loaded, and the load fails when none exists.
DiscoveryPrecedence ==
  LibDone("loadConfig") =>
    LET disk == lib.arg.disk
        options == lib.arg.options
        hasField == /\ disk[PACKAGE_JSON] # NoFile
                    /\ "overweight" \in DOMAIN disk[PACKAGE_JSON].data
    IN IF "inlineConfig" \in DOMAIN options
         THEN LoadedFrom(lib.out) = "inline"
       ELSE IF "configPath" \in DOMAIN options
         THEN IF disk[CUSTOM_CONFIG] = NoFile
              THEN ~lib.out.ok /\ lib.out.error = "config-file-missing"
              ELSE LoadedFrom(lib.out) \in {CUSTOM_CONFIG, ""}
       ELSE IF disk[OVERWEIGHT_JSON] # NoFile
         THEN LoadedFrom(lib.out) = OVERWEIGHT_JSON
       ELSE IF disk[OVERWEIGHT_CONFIG_JSON] # NoFile
         THEN LoadedFrom(lib.out) = OVERWEIGHT_CONFIG_JSON
       ELSE IF hasField
         THEN LoadedFrom(lib.out) = PACKAGE_JSON
       ELSE ~lib.out.ok /\ lib.out.error = "no-configuration-found"

\* ------------------------------------------------------------------------
\* The command line tool (specification CliSpec)
\* ------------------------------------------------------------------------

\* an option that was not given on the command line
NoOption == [k |-> "undefined"]

\* the registered reporters
REPORTERS == {"console", "json", "json-file", "silent"}

\* getReporter(name): the reporter, or the unknown-reporter error
getReporter(name) ==
  LET reporterName == IF name = "" THEN "console" ELSE name
  IN IF reporterName \in REPORTERS THEN Success(reporterName)
     ELSE Failure("unknown-reporter")

\* JSON.parse of the value of --files
parseInlineFiles(value) ==
  IF value.k = "json" THEN Success([files |-> value.data])
  ELSE Failure("files-json")

\* the configuration of --file with --max-size, null without --file
buildSingleRule(options) ==
  IF options.file = "" THEN Success(JsNull)
  ELSE IF options.maxSize = <<>> THEN Failure("max-size-required")
  ELSE Success([files |-> <<[path |-> options.file,
                             maxSize |-> JsStr(options.maxSize),
                             compression |-> options.compression]>>])

\* resolveConfig: an inline configuration is normalized with the inline
\* source, which is what loadConfig does with inlineConfig (load-config.js
\* 85-87); without one loadConfig is called with the config path
resolveConfig(options, disk) ==
  LET inlineConfig == IF options.files # NoOption THEN parseInlineFiles(options.files)
                      ELSE buildSingleRule(options)
  IN IF ~inlineConfig.ok THEN inlineConfig
     ELSE loadConfig(disk,
                     IF inlineConfig.value # JsNull
                       THEN [inlineConfig |-> inlineConfig.value]
                     ELSE IF options.config = "" THEN [none |-> TRUE]
                     ELSE [configPath |-> options.config])

\* the reporter applied to the result: the json-file reporter writes the
\* report file and throws when it cannot, the others only print
report(reporter, writable) ==
  IF reporter = "json-file" /\ ~writable THEN Failure("write-report")
  ELSE Success(reporter)

exitCodeOf_inverted(result) == IF result.stats.hasFailures THEN 0 ELSE 1

\* result.stats.hasFailures ? 1 : 0
exitCodeOf(result) == IF result.stats.hasFailures THEN 1 ELSE 0

\* the command lines: reporter options, configuration options
ReporterOptions ==
  {[json |-> FALSE, reporter |-> ""], [json |-> TRUE, reporter |-> "bogus"],
   [json |-> FALSE, reporter |-> "silent"], [json |-> FALSE, reporter |-> "json-file"],
   [json |-> FALSE, reporter |-> "bogus"]}

SingleRuleOptions ==
  {[file |-> "", maxSize |-> <<>>], [file |-> PATTERN_A, maxSize |-> <<"1", "k", "b">>],
   [file |-> PATTERN_A, maxSize |-> <<>>]}

CliOptions ==
  {[json |-> r.json, reporter |-> r.reporter, files |-> f, file |-> q.file,
    maxSize |-> q.maxSize, compression |-> <<>>, config |-> c] :
     r \in ReporterOptions,
     f \in {NoOption, Garbage, JsonFile(<<RawRule(PATTERN_A, NONE_ID, "")>>)},
     q \in SingleRuleOptions,
     c \in {"", CUSTOM_CONFIG}}

\* the process at the start of main
CliStarted(options, disk, writable) ==
  [pc |-> "main", options |-> options, disk |-> disk, writable |-> writable,
   reporter |-> "", invoked |-> FALSE, reported |-> FALSE,
   exitCode |-> 0, stderr |-> ""]

CliInit ==
  /\ ActionAtRest
  /\ lib = LibIdle
  /\ chk = ChkIdle
  /\ \E options \in CliOptions, disk \in Disks, writable \in BOOLEAN :
       cli = CliStarted(options, disk, writable)

\* process.exit(code), after console.error(message) in the catch block
Exited(code, message) ==
  [cli EXCEPT !.pc = "exited", !.exitCode = code, !.stderr = message]

\* main, lines 68-72: the reporter and the configuration are resolved and
\* runChecks is called; an error in either goes to the catch block
CliMain ==
  /\ cli.pc = "main"
  /\ LET reporterName == IF cli.options.json THEN "json" ELSE cli.options.reporter
         reporter == getReporter(reporterName)
         config == resolveConfig(cli.options, cli.disk)
     IN IF ~reporter.ok
          THEN cli' = Exited(1, reporter.error) /\ UNCHANGED chk
        ELSE IF ~config.ok
          THEN cli' = [Exited(1, config.error) EXCEPT !.reporter = reporter.value]
               /\ UNCHANGED chk
        ELSE /\ cli' = [cli EXCEPT !.pc = "checking", !.reporter = reporter.value]
             /\ chk' = ChkCalled(config.value, <<>>)
  /\ UNCHANGED <<actionVars, lib>>

\* lines 74-77: runChecks returned: the reporter is applied to the result
\* and the process exits with the code of the result
CliReport ==
  /\ cli.pc = "checking"
  /\ chk.pc = "returned"
  /\ LET written == report(cli.reporter, cli.writable)
     IN IF ~written.ok
        THEN cli' = [Exited(1, written.error) EXCEPT !.invoked = TRUE]
        ELSE cli' = [Exited(exitCodeOf(chk.ret), "") EXCEPT !.invoked = TRUE,
                                                           !.reported = TRUE]
  /\ UNCHANGED <<actionVars, lib, chk>>

\* lines 78-81: runChecks threw
CliCatch ==
  /\ cli.pc = "checking"
  /\ chk.pc = "thrown"
  /\ cli' = Exited(1, chk.error.kind)
  /\ UNCHANGED <<actionVars, lib, chk>>

CliNext ==
  \/ CliMain
  \/ NormalizeAndRegister /\ UNCHANGED <<actionVars, lib, cli>>
  \/ EnterRule /\ UNCHANGED <<actionVars, lib, cli>>
  \/ MeasureMatch /\ UNCHANGED <<actionVars, lib, cli>>
  \/ ReturnSummary /\ UNCHANGED <<actionVars, lib, cli>>
  \/ CliReport
  \/ CliCatch

CliSpec == CliInit /\ [][CliNext]_vars

\* runChecks ran to completion and no result failed or errored
CleanResult ==
  /\ chk.pc = "returned"
  /\ \A k \in 1..Len(chk.results) : chk.results[k].passed /\ chk.results[k].error = ""

\* C27 as stated: the exit code is 0 exactly when the checks ran to
\* completion without a failed or errored result and 1 otherwise; when main
\* fails before a result exists the reporter is not invoked.
ExitCodeByResult ==
  cli.pc = "exited" =>
    /\ cli.exitCode = (IF CleanResult THEN 0 ELSE 1)
    /\ chk.pc # "returned" => ~cli.invoked

\* C27: the exit code is 0 exactly when the checks ran to completion
\* without a failed or errored result and the reporter did not throw, and
\* 1 otherwise; the reporter is invoked exactly when runChecks returned.
ExitCodeByResultAndReport ==
  cli.pc = "exited" =>
    /\ cli.exitCode = (IF CleanResult /\ cli.reported THEN 0 ELSE 1)
    /\ cli.invoked <=> chk.pc = "returned"
    /\ cli.reported <=> (cli.invoked /\ ~(cli.reporter = "json-file" /\ ~cli.writable))

\* a clean result was reported and the process exited with 0
CleanRunExited ==
  cli.pc = "exited" /\ CleanResult /\ cli.reported /\ cli.exitCode = 0

\* C25: a missing baseline file and an unparsable one leave the run without
\* an error after the read (the missing file as a null baseline); a baseline
\* file that cannot be read for another reason is fatal, so a run that got
\* past the read of such a file is in the failed state.
BaselineReadErrors ==
  (run.pc \notin {"idle", "read"} /\ run.baselinePath # "") =>
    /\ run.checkout = NoFile => run.raw = RawNull
    /\ (run.checkout \in {NoFile, Garbage} /\ run.pc = "gate") => run.failed = <<>>
    /\ run.checkout = Unreadable => run.failed # <<>>

\* ------------------------------------------------------------------------
\* Report comments over a sequence of runs (specification CommentSpec)
\* ------------------------------------------------------------------------

\* the comments of the pull request before the first run: none, two report
\* comments of which the older one was updated last, a comment of a user
\* that quotes the marker, a comment of a bot without the marker
EarlierComments ==
  {<<>>,
   <<Comment(1, "Bot", TRUE, 2), Comment(2, "Bot", TRUE, 1)>>,
   <<Comment(1, "User", TRUE, 1)>>,
   <<Comment(1, "Bot", FALSE, 1)>>}

\* runs that do not update the baseline, on a pull request with few or with
\* a full page of other comments, with the token of a bot or of a user
CommentInit ==
  /\ peer = NoPeer
  /\ inputs \in [updateBaseline : {FALSE}, token : BOOLEAN, pathInput : PathInputs,
                 patternsInput : {CHOOSE x \in PatternInputs : TRUE}]
  /\ run = IdleRun
  /\ fs = [p \in Paths |-> NoFile]
  /\ \E comments \in EarlierComments, otherComments \in {0, per_page},
        actor \in {"Bot", "User"} :
       remote = [Repository({}) EXCEPT !.comments = comments,
                                       !.otherComments = otherComments,
                                       !.actor = actor,
                                       !.clock = Len(comments)]
  /\ hist = [runs |-> 0, targets |-> {}]
  /\ chk = ChkIdle
  /\ lib = LibIdle
  /\ cli = CliIdle

\* a new commit is pushed to the same pull request: the same event, a new
\* result of the checks
Push ==
  /\ run.pc = "done"
  /\ hist.runs <= MaxReruns
  /\ run.event.pr # 0
  /\ \E hasFailures \in BOOLEAN :
       run' = [IdleRun EXCEPT !.pc = "read", !.hasFailures = hasFailures,
                 !.event = run.event,
                 !.baselinePath = baselinePathOf(inputs.pathInput, inputs.updateBaseline),
                 !.checkout = run.checkout]
  /\ fs' = LET baselinePath == baselinePathOf(inputs.pathInput, inputs.updateBaseline)
           IN [p \in Paths |-> IF p = baselinePath THEN run.checkout ELSE NoFile]
  /\ remote' = [remote EXCEPT !.fresh = {}]
  /\ hist' = [hist EXCEPT !.runs = @ + 1]
  /\ UNCHANGED inputs

CommentNext ==
  \/ StartRun /\ UNCHANGED <<chk, lib, cli, peer>>
  \/ Push /\ UNCHANGED <<chk, lib, cli, peer>>
  \/ ReadBaseline /\ UNCHANGED <<chk, lib, cli, peer>>
  \/ UpdateGate /\ UNCHANGED <<chk, lib, cli, peer>>
  \/ FindReportComment /\ UNCHANGED <<chk, lib, cli, peer>>
  \/ CommentOnPr /\ UNCHANGED <<chk, lib, cli, peer>>
  \/ Finish /\ UNCHANGED <<chk, lib, cli, peer>>

CommentSpec == CommentInit /\ [][CommentNext]_vars

\* the report comments among comments
ReportsOf(comments) ==
  {comments[k] : k \in {l \in 1..Len(comments) : IsReportComment(comments[l])}}

\* C28: when the action calls the comment API and the pull request has a
\* comment of a bot with the report marker, the call updates the most
\* recently updated such comment; over the sequence of runs the action
\* creates at most one comment.
ReportCommentUpsert ==
  /\ (run.commentCall.kind # "none" /\ ReportsOf(run.commentCall.before) # {}) =>
       /\ run.commentCall.kind = "update"
       /\ \E c \in ReportsOf(run.commentCall.before) :
            /\ c.id = run.commentCall.id
            /\ \A d \in ReportsOf(run.commentCall.before) : d.updated_at <= c.updated_at
  /\ remote.createdComments <= 1

\* C29: a run that ended is in the failed state exactly when its checks
\* have failures, or an error reached the catch block, or the update was
\* requested without a token; the error that reached the catch block is
\* never the 403 of the comment call, and an error of put-file that asks for
\* a retry is only raised when the retries are used up.
FailedStateExact ==
  run.pc = "done" =>
    /\ run.failed # <<>> <=>
         \/ run.hasFailures
         \/ run.error # NoError
         \/ inputs.updateBaseline /\ ~inputs.token
    /\ run.error.step = "comment" => run.commentCall.status # 403
    /\ (run.error.step = "put" /\ run.lastPut.status = 404
          /\ MessageIncludesBranch(run.lastPut.message)) => run.attempt = maxRetries - 1

\* a run ended without the failed state although its baseline was already
\* up to date and its comment call was answered 403
RecoverableRunEnded ==
  /\ run.pc = "done" /\ run.failed = <<>>
  /\ run.rows # <<>> /\ ~run.needsUpdate
  /\ run.commentCall.status = 403

\* the positions of ensureUpdateBranchExists
EnsureSteps == {"ensure_get", "ensure_base", "ensure_create", "ensure_verify"}

\* the outputs of the baseline update are set
OutputsSet == run.baselineUpdated \/ run.outPrNumber # 0

\* C30: in every run put-file is attempted only when the update branch was
\* ensured since the last attempt; the PR lookup and create-PR come only
\* after a put-file succeeded, create-PR only after a lookup that found
\* nothing; the outputs are set only after a PR was found or created; an
\* error in a step ends the run before every later step.
StrictlySequential ==
  /\ run.pc = "put" => run.branchEnsured
  /\ "put-file" \in run.steps => "ensured" \in run.steps
  /\ (run.pc \in {"findBaselinePr", "createPr"}
        \/ run.steps \cap {"pr-lookup", "create-pr"} # {}) => "put-ok" \in run.steps
  /\ (run.pc = "createPr" \/ "create-pr" \in run.steps) =>
       ("pr-lookup" \in run.steps /\ "pr-found" \notin run.steps)
  /\ OutputsSet =>
       /\ run.steps \cap {"pr-found", "pr-created"} # {}
       /\ run.baselineUpdated /\ run.outPrNumber # 0
  /\ run.error # NoError =>
       /\ run.pc = "done"
       /\ run.error.step \in EnsureSteps \cup {"getSha", "put"} =>
            (run.steps \cap {"put-ok", "pr-lookup", "create-pr"} = {} /\ ~OutputsSet)
       /\ run.error.step = "findBaselinePr" =>
            ("create-pr" \notin run.steps /\ ~OutputsSet)
       /\ run.error.step = "createPr" => ~OutputsSet

\* a run set the outputs after it ensured the branch, put the file, looked
\* the pull request up and created it
UpdateCompletedInOrder ==
  /\ run.pc = "done"
  /\ run.steps = {"ensured", "put-file", "put-ok", "pr-lookup", "create-pr", "pr-created"}
  /\ OutputsSet

(* ===================== two runs at the same time ======================= *)
\* two workflow runs for the same pull request, each on its own runner with
\* its own checkout; the hosting API serves one call at a time, the calls
\* of the two runs interleave freely
\* the pull_request event and the push event of the same commit
RaceEvents == {Event(SourcePr, REL, MERGE7), Event(0, <<>>, FEAT)}
\* the update branch of the source pull request
RaceBranch == buildUpdateBranchName(<<>>, SourcePr, FEAT, 0)
\* the snapshot an earlier run committed on the update branch
EarlierSnapshot ==
  getBaselineUpdateInfo(NoFile, <<Row("b", 1), Row("a", 1)>>, RawNull).content

\* a run after resolveConfig and runChecks (lines 431-447)
StartedRun(event, checkout) ==
  [IdleRun EXCEPT !.pc = "read", !.event = event, !.checkout = checkout,
     !.baselinePath = baselinePathOf(inputs.pathInput, inputs.updateBaseline)]

WorkspaceOf(checkout) ==
  [p \in Paths |->
     IF p = baselinePathOf(inputs.pathInput, inputs.updateBaseline)
       THEN checkout ELSE NoFile]

RaceInit ==
  /\ inputs = [updateBaseline |-> TRUE, token |-> TRUE,
               pathInput |-> "baseline.json", patternsInput |-> <<>>]
  /\ run = StartedRun(Event(SourcePr, REL, MERGE7), NoFile)
  /\ fs = WorkspaceOf(NoFile)
  /\ \E event \in RaceEvents :
       peer = [run |-> StartedRun(event, NoFile), fs |-> WorkspaceOf(NoFile)]
  /\ \E earlier \in BOOLEAN :
       remote =
         IF earlier
           THEN [Repository({RaceBranch}) EXCEPT
                   !.files = {[ref |-> RaceBranch,
                               path |-> baselinePathOf(inputs.pathInput, TRUE),
                               content |-> EarlierSnapshot]}]
         ELSE Repository({})
  /\ hist = [runs |-> 2, targets |-> {}]
  /\ chk = ChkIdle
  /\ lib = LibIdle
  /\ cli = CliIdle

\* the positions of a run before a call of the hosting API that reads or
\* writes the update branch, its files or its pull requests
SharedSteps ==
  {"ensure_get", "ensure_create", "ensure_verify", "getSha", "put",
   "findBaselinePr", "createPr"}

\* the other run takes its next step: the two runs change places; steps
\* that touch nothing the other run reads are not interleaved
Switch ==
  /\ peer.run.pc \notin {"idle", "done", "comments"}
  /\ run.pc \in SharedSteps \cup {"done", "comments"}
  /\ run' = peer.run
  /\ fs' = peer.fs
  /\ peer' = [run |-> run, fs |-> fs]
  /\ UNCHANGED <<inputs, remote, hist>>

RaceNext ==
  \/ Switch /\ UNCHANGED <<chk, lib, cli>>
  \/ ReadBaseline /\ UNCHANGED <<chk, lib, cli, peer>>
  \/ UpdateGate /\ UNCHANGED <<chk, lib, cli, peer>>
  \/ CheckNeedsUpdate /\ UNCHANGED <<chk, lib, cli, peer>>
  \/ ResolveBaseBranch /\ UNCHANGED <<chk, lib, cli, peer>>
  \/ DeterminePr /\ UNCHANGED <<chk, lib, cli, peer>>
  \/ ProbePrefixRef /\ UNCHANGED <<chk, lib, cli, peer>>
  \/ EnsureGetRef /\ UNCHANGED <<chk, lib, cli, peer>>
  \/ EnsureGetBase /\ UNCHANGED <<chk, lib, cli, peer>>
  \/ EnsureCreateRef /\ UNCHANGED <<chk, lib, cli, peer>>
  \/ EnsureVerify /\ UNCHANGED <<chk, lib, cli, peer>>
  \/ GetExistingFileSha /\ UNCHANGED <<chk, lib, cli, peer>>
  \/ PutFile /\ UNCHANGED <<chk, lib, cli, peer>>
  \/ FindBaselinePr /\ UNCHANGED <<chk, lib, cli, peer>>
  \/ CreatePr /\ UNCHANGED <<chk, lib, cli, peer>>

\* handleBaselineUpdate of the two runs, up to its return or its error
RaceSpec == RaceInit /\ [][RaceNext]_vars

\* the last put-file of run r was issued after another commit of the
\* baseline file than the one r had read the SHA from
PutAfterOtherCommit(r) == r.nPut > 0 /\ r.putAt > r.readAt

\* the answers of put-file that come from the SHA check
ShaRejections == {409, 422}

\* the put-file of r was not accepted; when the SHA check answered it, it
\* was not retried and the run ended failed
PutRejected(r) ==
  /\ r.lastPut.status # 200
  /\ r.lastPut.status \in ShaRejections =>
       (r.pc = "done" /\ r.failed # <<>> /\ r.error.step = "put")

NoDuplicateBaselinePr ==
  (run.updateBranchName # <<>> /\ run.updateBranchName = peer.run.updateBranchName)
    => Cardinality(OpenPrsOfHead(run.updateBranchName)) <= 1

(* ================= a later run after a failed update =================== *)
\* the workflow runs for the pull_request event, fails or ends, and is run
\* again for the same commit; the runner of the later run has a fresh
\* checkout, or the workspace the earlier run left behind
RetryInit ==
  /\ \E pathInput \in PathInputs :
       inputs = [updateBaseline |-> TRUE, token |-> TRUE, pathInput |-> pathInput,
                 patternsInput |-> <<>>]
  /\ \E checkout \in Checkouts :
       /\ run = StartedRun(Event(SourcePr, REL, MERGE7), checkout)
       /\ fs = WorkspaceOf(checkout)
  /\ \E extra \in {{}, {OVERWEIGHT}} : remote = Repository(extra)
  /\ hist = [runs |-> 1, targets |-> {}, partial |-> FALSE, kept |-> FALSE,
             branch |-> <<>>, content |-> Undefined]
  /\ peer = NoPeer
  /\ chk = ChkIdle
  /\ lib = LibIdle
  /\ cli = CliIdle

\* the run created the update branch and failed before a put-file succeeded
FailedAfterCreateRef(r) ==
  /\ r.pc = "done" /\ r.error # NoError
  /\ "create-ref" \in r.writes /\ RefExists(r.updateBranchName)
  /\ "put-ok" \notin r.steps

\* the later run: same event, same commit, same result of the checks
Retry ==
  /\ run.pc = "done"
  /\ hist.runs = 1
  /\ \E kept \in BOOLEAN :
       /\ run' = [StartedRun(run.event, run.checkout) EXCEPT
                    !.rows = run.rows, !.rerun = TRUE,
                    !.committed = run.baselineUpdated]
       /\ fs' = IF kept THEN fs ELSE WorkspaceOf(run.checkout)
       /\ hist' = [hist EXCEPT !.runs = 2, !.kept = kept,
                     !.partial = FailedAfterCreateRef(run),
                     !.branch = run.updateBranchName,
                     !.content = run.content]
  /\ remote' = [remote EXCEPT !.fresh = {}]
  /\ UNCHANGED inputs

RetryNext ==
  \/ Retry /\ UNCHANGED <<chk, lib, cli, peer>>
  \/ ReadBaseline /\ UNCHANGED <<chk, lib, cli, peer>>
  \/ UpdateGate /\ UNCHANGED <<chk, lib, cli, peer>>
  \/ CheckNeedsUpdate /\ UNCHANGED <<chk, lib, cli, peer>>
  \/ ResolveBaseBranch /\ UNCHANGED <<chk, lib, cli, peer>>
  \/ DeterminePr /\ UNCHANGED <<chk, lib, cli, peer>>
  \/ ProbePrefixRef /\ UNCHANGED <<chk, lib, cli, peer>>
  \/ EnsureGetRef /\ UNCHANGED <<chk, lib, cli, peer>>
  \/ EnsureGetBase /\ UNCHANGED <<chk, lib, cli, peer>>
  \/ EnsureCreateRef /\ UNCHANGED <<chk, lib, cli, peer>>
  \/ EnsureVerify /\ UNCHANGED <<chk, lib, cli, peer>>
  \/ GetExistingFileSha /\ UNCHANGED <<chk, lib, cli, peer>>
  \/ PutFile /\ UNCHANGED <<chk, lib, cli, peer>>
  \/ FindBaselinePr /\ UNCHANGED <<chk, lib, cli, peer>>
  \/ CreatePr /\ UNCHANGED <<chk, lib, cli, peer>>
  \/ FindReportComment /\ UNCHANGED <<chk, lib, cli, peer>>
  \/ CommentOnPr /\ UNCHANGED <<chk, lib, cli, peer>>
  \/ Finish /\ UNCHANGED <<chk, lib, cli, peer>>

RetrySpec == RetryInit /\ [][RetryNext]_vars

\* the later run ended and none of its calls of the hosting API was answered
\* with an error
LaterRunSucceeded ==
  /\ hist.runs = 2 /\ run.pc = "done"
  /\ run.error = NoError /\ run.commentCall.status # 403

\* the snapshot is committed on the update branch, the branch has an open
\* pull request and the output baseline-updated is true
UpdateReconciled ==
  /\ RemoteFile(hist.branch, run.baselinePath) = hist.content
  /\ OpenPrsOfHead(hist.branch) # {}
  /\ run.baselineUpdated

\* C33: when a run failed after it created the update branch and before its
\* put-file succeeded, a later run with the same result of the checks whose
\* remote calls all succeed ends with the snapshot committed on the update
\* branch, an open baseline pull request and baseline-updated = true, with
\* a fresh checkout as well as with the workspace the failed run left.
RerunAfterPartialUpdate ==
  (hist.partial /\ LaterRunSucceeded) => UpdateReconciled

(* ------------------- the baseline is read only once -------------------- *)
\* what the baseline file of the checkout gives when it is read as text
ContentAtStart(checkout) ==
  IF checkout \in {NoFile, Unreadable} THEN RawNull ELSE checkout

\* C34: the baseline is read once, at the start of the run and before the
\* report file is written, and the idempotence comparison uses that content:
\* also when the baseline path is the report file, a run needs an update
\* exactly when the file of the checkout was absent or differs from the
\* serialized snapshot; the report written meanwhile plays no part.
BaselineReadOnceAtStart ==
  /\ (run.pc \notin {"idle", "read"} /\ ~run.checksThrew /\ run.baselinePath # "")
       => run.raw = ContentAtStart(run.checkout)
  /\ (run.rows # <<>> /\ run.pc \notin {"read", "gate", "hbu"}) =>
       run.needsUpdate =
         (ContentAtStart(run.checkout) = RawNull
            \/ run.checkout # serializeBaselineSnapshot(run.rows))

\* the baseline path is the report file, the report was written over the
\* checked-out snapshot, and the run ended without an update
SharedReportFileUnchanged ==
  /\ run.pc = "done" /\ run.baselinePath = reportFileInput
  /\ run.rows # <<>> /\ run.checkout = serializeBaselineSnapshot(run.rows)
  /\ fs[reportFileInput] # run.checkout
  /\ ~run.needsUpdate /\ run.writes = {}

(* ---------------------- the branch-creation race ----------------------- *)
\* the call of ensureUpdateBranchExists of r ended with an error
EnsureFailed(r) == r.ensure = "threw" /\ r.error.step \in EnsureSteps

\* C35: a create-ref answered 422 is followed by the verification like a
\* create-ref that succeeded; after a create-ref the call returns only when
\* a get-ref of the update branch succeeded, so the branch exists; the
\* not-accessible error is raised only by the fifth 404 in a row of the
\* verification; every other error of create-ref or get-ref ends the call
\* with that error.
CreateRefRaceTolerated ==
  \A r \in {run, peer.run} :
    /\ r.createRefAnswer \in {200, 422} =>
         \/ r.pc = "ensure_verify"
         \/ r.ensure = "returned"
         \/ EnsureFailed(r) /\ r.error.step = "ensure_verify"
    /\ (r.ensure = "returned" /\ r.ensureCreates > 0) =>
         (r.error.step \notin EnsureSteps /\ RefExists(r.updateBranchName))
    /\ r.pc = "ensure_verify" => r.vattempt < verifyMaxRetries
    /\ EnsureFailed(r) =>
         /\ r.pc = "done" /\ r.failed = <<r.error.message>>
         /\ r.error.message = NotAccessibleMessage =>
              (r.error.step = "ensure_verify" /\ r.vattempt = verifyMaxRetries - 1)
         /\ r.error.message # NotAccessibleMessage => r.error.message = Err500.message
    /\ r.createRefAnswer \notin {0, 200, 422} =>
         (EnsureFailed(r) /\ r.error.step = "ensure_create")
    /\ r.firstGetRef \notin {0, 200, 404} =>
         (EnsureFailed(r) /\ r.error.step = "ensure_get")

\* the other run created the update branch between the existence check and
\* the create-ref of a run, whose call returned after the verification
LostCreateRefRace ==
  /\ run.createRefAnswer = 422 /\ run.firstGetRef = 404
  /\ run.ensure = "returned" /\ run.error = NoError
  /\ "create-ref" \in peer.run.writes
  /\ peer.run.updateBranchName = run.updateBranchName

(* ------------------ one file matched by two rules ---------------------- *)
\* C36: when a file is matched by two rules, each current row is compared
\* with the baseline record of the same file and the same tester: its
\* baseline size and its delta come from that record.
BaselineOfSameRule ==
  LibDone("mergeWithBaseline") =>
    \A k \in 1..Len(lib.arg.rows) :
      LET row == lib.arg.rows[k]
          m == lib.out.merged[k]
      IN \A l \in 1..Len(lib.arg.baseline) :
           LET e == lib.arg.baseline[l]
           IN (e.file = row.file /\ e.tester = row.tester) =>
                /\ m.baselineSize = e.size
                /\ m.baselineDiff = formatDiff(row.sizeBytes - e.sizeBytes)

(* ------------- runChecks on raw and normalized configurations ---------- *)
\* raw configurations with a root: relative to the working directory, or
\* absolute
RootedConfigs ==
  {c @@ [root |-> r] : c \in RawConfigs, r \in {PACKAGE_DIR, CWD \o PACKAGE_DIR}}

\* the array form of the rules of a raw configuration
ArrayConfigs == {[array |-> c.files] : c \in RawConfigs}

\* normalizeConfig(rawConfig) called by the consumer, with process.cwd() as cwd
NormalizedByCaller(rawConfig) ==
  normalizeConfig(rawConfig).value
    @@ [root |-> normalizedRoot(rawConfig, <<>>),
        source |-> [type |-> "inline"], normalized |-> TRUE]

\* what runChecks is called with: a raw configuration, or the normalized
\* value of one
CheckInputs ==
  LET raws == RawConfigs \cup RootedConfigs \cup ArrayConfigs
  IN raws \cup {NormalizedByCaller(c) : c \in {r \in raws : normalizeConfig(r).ok}}

RootInit ==
  /\ ActionAtRest
  /\ lib = LibIdle
  /\ cli = CliIdle
  /\ \E rawConfig \in CheckInputs, testers \in TesterOptions :
       chk = ChkCalled(rawConfig, testers)

RootSpec == RootInit /\ [][ChecksNext]_vars

\* C37: runChecks takes a normalized configuration as it is; for a raw
\* configuration it evaluates the rules that normalizeConfig(raw) gives, in
\* the root directory that normalizeConfig(raw) gives with the working
\* directory of the process as cwd, so both calls return the same results.
NormalizationIdempotent ==
  chk.pc \in {"rule", "match", "returned"} =>
    IF isNormalizedConfig(chk.rawConfig)
      THEN /\ chk.config = chk.rawConfig
           /\ chk.root = chk.rawConfig.root
    ELSE /\ chk.config.files = NormalizedByCaller(chk.rawConfig).files
         /\ chk.config.defaultCompression =
              NormalizedByCaller(chk.rawConfig).defaultCompression
         /\ chk.root = NormalizedByCaller(chk.rawConfig).root

(* ------------------------ the result invariant ------------------------- *)
\* C38: in a returned result set a result with an error has passed = false
\* and neither size nor diff, whatever its budget; a result without error
\* has a finite size and diff = size - maxSize; hasErrors implies
\* hasFailures.
ResultInvariant ==
  chk.returned =>
    /\ \A k \in 1..Len(chk.ret.results) :
         LET r == chk.ret.results[k]
         IN IF r.error # ""
              THEN ~r.passed /\ r.size = NoValue /\ r.diff = NoValue
            ELSE /\ r.size.t = "number"
                 /\ r.diff = JsSub(r.size, r.maxSize)
    /\ chk.ret.stats.hasErrors => chk.ret.stats.hasFailures

\* a returned result set with an error result and a measured result that
\* is within its budget
ErrorBesideMeasured ==
  /\ chk.returned /\ chk.ret.stats.hasErrors
  /\ \E k, l \in 1..Len(chk.ret.results) :
       /\ chk.ret.results[k].error # ""
       /\ chk.ret.results[l].error = "" /\ chk.ret.results[l].passed

(* --------------------------- termination ------------------------------- *)
\* one run of the action; every call of the hosting API returns, so a run
\* that can take a step takes it
LiveNext ==
  \/ StartRun /\ UNCHANGED <<chk, lib, cli, peer>>
  \/ ReadBaseline /\ UNCHANGED <<chk, lib, cli, peer>>
  \/ UpdateGate /\ UNCHANGED <<chk, lib, cli, peer>>
  \/ CheckNeedsUpdate /\ UNCHANGED <<chk, lib, cli, peer>>
  \/ ResolveBaseBranch /\ UNCHANGED <<chk, lib, cli, peer>>
  \/ DeterminePr /\ UNCHANGED <<chk, lib, cli, peer>>
  \/ ProbePrefixRef /\ UNCHANGED <<chk, lib, cli, peer>>
  \/ EnsureGetRef /\ UNCHANGED <<chk, lib, cli, peer>>
  \/ EnsureGetBase /\ UNCHANGED <<chk, lib, cli, peer>>
  \/ EnsureCreateRef /\ UNCHANGED <<chk, lib, cli, peer>>
  \/ EnsureVerify /\ UNCHANGED <<chk, lib, cli, peer>>
  \/ GetExistingFileSha /\ UNCHANGED <<chk, lib, cli, peer>>
  \/ PutFile /\ UNCHANGED <<chk, lib, cli, peer>>
  \/ FindBaselinePr /\ UNCHANGED <<chk, lib, cli, peer>>
  \/ CreatePr /\ UNCHANGED <<chk, lib, cli, peer>>
  \/ FindReportComment /\ UNCHANGED <<chk, lib, cli, peer>>
  \/ CommentOnPr /\ UNCHANGED <<chk, lib, cli, peer>>
  \/ Finish /\ UNCHANGED <<chk, lib, cli, peer>>

\* the workflow with a token and a baseline path of its own
LiveInit ==
  /\ Init
  /\ inputs.token /\ inputs.pathInput = "baseline.json" /\ inputs.patternsInput = <<>>
  /\ remote = Repository({})

LiveSpec == LiveInit /\ [][LiveNext]_vars /\ WF_vars(LiveNext)

\* the bounds of the two retry loops: at most maxRetries put-file calls, one
\* call of ensureUpdateBranchExists by handleBaselineUpdate and one more
\* before each retry, at most verifyMaxRetries verification calls per
\* call of ensureUpdateBranchExists
RetryBounds ==
  /\ run.nPut <= maxRetries
  /\ run.attempt <= maxRetries - 1
  /\ run.vattempt <= verifyMaxRetries - 1
  /\ run.nPut > 0 =>
       /\ run.nEnsure = 1 + run.attempt
       /\ run.pc = "put" => run.nPut = run.attempt
       /\ run.pc \in EnsureSteps => run.nPut = run.attempt

\* C39: every run ends, completed or failed, when every remote call
\* returns; one run issues at most 5 put-file calls, ensures the branch
\* exactly once before each retry, and each call of
\* ensureUpdateBranchExists verifies at most 5 times.
BoundedRetriesTerminate ==
  /\ [](RetryBounds)
  /\ <>(run.pc = "done")

\* a run ended failed after the fifth put-file was answered like the four
\* before it, each retry after a new call of ensureUpdateBranchExists
RetriesUsedUp ==
  /\ run.pc = "done" /\ run.failed # <<>>
  /\ run.nPut = maxRetries /\ run.nEnsure = maxRetries
  /\ run.lastPut = Err404Branch

====
